---- MODULE Spec2Model ----
(***************************************************************************)
(* Commit-reveal two-party game protocol of HW06 (rock-paper-scissors) and *)
(* HW07 (dice match): commitment scheme, game logic, message framing, the  *)
(* round handlers of Alice (Committer) and Bob (Responder) and the match   *)
(* loops around them.                                                      *)
(*                                                                         *)
(* Python strings are sequences of one-character strings, so that the      *)
(* concatenation value + "||" + nonce is computed character by character.  *)
(* SHA-256 is modelled as an injective function of its input string: the   *)
(* digest of s is the pair <<"sha256", s>>.                                *)
(***************************************************************************)
EXTENDS Integers, Sequences, FiniteSets, TLC

(* ------------------------------------------------------------------ *)
(* Bounds of the model                                                 *)
(* ------------------------------------------------------------------ *)

\* games per match (NUM_GAMES of the environment)
NumGames == 2

\* largest dice count the Committer is configured with (NUM_DICE)
MaxNumDice == 1

\* messages an arbitrary (not code-following) client sends in a run
MaxIntruderMsgs == 2

(* ------------------------------------------------------------------ *)
(* Program constants                                                   *)
(* ------------------------------------------------------------------ *)

\* random.randint(1, 6)
DieMin == 1
DieMax == 6

ROCK == <<"r", "o", "c", "k">>
PAPER == <<"p", "a", "p", "e", "r">>
SCISSORS == <<"s", "c", "i", "s", "s", "o", "r", "s">>
VALID_MOVES == {ROCK, PAPER, SCISSORS}

MSG_COMMIT == "COMMIT"
MSG_MOVE == "MOVE"
MSG_RESULT == "RESULT"
MSG_REVEAL == "REVEAL"
MSG_MATCH_RESULT == "MATCH_RESULT"
MSG_ERROR == "ERROR"

(* ------------------------------------------------------------------ *)
(* Strings                                                             *)
(* ------------------------------------------------------------------ *)

DigitChar(d) == CASE d = 0 -> "0" [] d = 1 -> "1" [] d = 2 -> "2" [] d = 3 -> "3"
                  [] d = 4 -> "4" [] d = 5 -> "5" [] d = 6 -> "6" [] d = 7 -> "7"
                  [] d = 8 -> "8" [] d = 9 -> "9"

RECURSIVE NatStr(_)
NatStr(n) == IF n < 10 THEN <<DigitChar(n)>>
             ELSE NatStr(n \div 10) \o <<DigitChar(n % 10)>>

\* str(i) of a Python int: decimal digits, "-" in front of a negative one
PyStr(i) == IF i < 0 THEN <<"-">> \o NatStr(0 - i) ELSE NatStr(i)

RECURSIVE SeqSum(_)
SeqSum(s) == IF s = <<>> THEN 0 ELSE Head(s) + SeqSum(Tail(s))

(* ------------------------------------------------------------------ *)
(* CommitmentScheme                                                    *)
(* ------------------------------------------------------------------ *)

\* hashlib.sha256(data).hexdigest(), injective in data
Sha256(data) == <<"sha256", data>>

\* secrets.token_hex(length): the strings generate_nonce may return
\* (hex strings; two characters stand for the 64 of the code)
Nonces == {<<"a", "1">>, <<"0", "f">>}

\* a commitment over the plain concatenation of value and nonce
commit_unseparated(value, nonce) == Sha256(value \o nonce)

commit(value, nonce) == Sha256(value \o <<"|", "|">> \o nonce)

\* verify with the arguments of the recomputation in the wrong order
verify_swapped(commitment, value, nonce) == commitment = commit(nonce, value)

\* verify that accepts every digest
verify_any(commitment, value, nonce) == commitment[1] = "sha256"

verify(commitment, value, nonce) == commitment = commit(value, nonce)

(* ------------------------------------------------------------------ *)
(* GameLogic (HW06) and DiceLogic (HW07)                               *)
(* ------------------------------------------------------------------ *)

\* a validity check that lets every move through
is_valid_move_any(move) == TRUE

is_valid_move(move) == move \in VALID_MOVES

winning_combinations == {<<ROCK, SCISSORS>>, <<SCISSORS, PAPER>>, <<PAPER, ROCK>>}

\* the table read with the pair the other way round
determine_winner_reversed(move1, move2) ==
    IF move1 = move2 THEN 0
    ELSE IF <<move2, move1>> \in winning_combinations THEN 1 ELSE 2

\* GameLogic.determine_winner: 0 tie, 1 player 1, 2 player 2
determine_winner(move1, move2) ==
    IF move1 = move2 THEN 0
    ELSE IF <<move1, move2>> \in winning_combinations THEN 1 ELSE 2

\* DiceLogic.determine_winner
dice_determine_winner(sum1, sum2) ==
    IF sum1 > sum2 THEN 1 ELSE IF sum2 > sum1 THEN 2 ELSE 0

\* the results roll_dice(num_dice) may return; range(n) is empty for n <= 0
RECURSIVE roll_dice(_)
roll_dice(num_dice) ==
    IF num_dice <= 0 THEN {<<>>}
    ELSE {r \o <<d>> : r \in roll_dice(num_dice - 1), d \in DieMin..DieMax}

calculate_sum(dice_results) == SeqSum(dice_results)

get_result_message(winner, alice_move, bob_move) ==
    IF winner = 0 THEN <<"TIE! Both played ", alice_move>>
    ELSE IF winner = 1 THEN <<"ALICE WINS! ", alice_move, " beats ", bob_move>>
    ELSE <<"BOB WINS! ", bob_move, " beats ", alice_move>>

\* DiceLogic.get_result_message
dice_get_result_message(winner, alice_sum, bob_sum) ==
    IF winner = 0 THEN <<"TIE! Both scored ", alice_sum>>
    ELSE IF winner = 1 THEN <<"ALICE WINS! ", alice_sum, " beats ", bob_sum>>
    ELSE <<"BOB WINS! ", bob_sum, " beats ", alice_sum>>

(* ------------------------------------------------------------------ *)
(* State                                                               *)
(* ------------------------------------------------------------------ *)

VARIABLES
    game,      \* "rps" (HW06) or "dice" (HW07)
    mode,      \* who follows the code: "honest" (both), "rogue_client", "rogue_server"
    conns,     \* the TCP connections, in the order in which the client opened them
    alice,     \* AliceClient: position in play_game / the match loop, locals, tally
    bob,       \* BobServer: position in handle_game / the accept loop, locals, tally
    budget,    \* messages the rogue peer may still send
    lab        \* the calls of the pure functions (commit, verify, the message codec)

vars == <<game, mode, conns, alice, bob, budget, lab>>

ConnIds == 1..NumGames

\* a line on the wire that ProtocolMessage.parse rejects
Malformed == [type |-> "<malformed>", data |-> [none |-> <<>>]]

\* a payload without any of the fields the handlers read
NoData == [none |-> <<>>]

Msg(type, data) == [type |-> type, data |-> data]

ErrorMsg(text) == Msg(MSG_ERROR, [message |-> text])

UnusedConn == [a2b |-> <<>>, b2a |-> <<>>, cli |-> "unused", srv |-> "unused", log |-> <<>>]

Event(by, op, m) == [by |-> by, op |-> op, msg |-> m]

\* what a blocking receive_message returns on a queue: a message, or the
\* exception it raises; it blocks while the queue is empty and the peer open
RecvReady(queue, peer) == queue # <<>> \/ peer = "closed"

RecvOutcome(queue) ==
    IF queue = <<>> THEN [kind |-> "exc", text |-> <<"Connection closed">>, msg |-> Malformed]
    ELSE IF Head(queue).type = Malformed.type
         THEN [kind |-> "exc", text |-> <<"Failed to parse message">>, msg |-> Malformed]
         ELSE [kind |-> "msg", text |-> <<>>, msg |-> Head(queue)]

\* sendall on a socket whose peer is gone either returns (the bytes are lost)
\* or raises; sent tells which one happens
BobPut(c, m, sent) ==
    IF c.cli = "open"
    THEN [c EXCEPT !.b2a = Append(@, m), !.log = Append(@, Event("bob", "send", m))]
    ELSE IF sent THEN [c EXCEPT !.log = Append(@, Event("bob", "send", m))] ELSE c

BobSendRaises(c, sent) == c.cli # "open" /\ ~sent

AlicePut(c, m, sent) ==
    IF c.srv \in {"pending", "open"}
    THEN [c EXCEPT !.a2b = Append(@, m), !.log = Append(@, Event("alice", "send", m))]
    ELSE IF sent THEN [c EXCEPT !.log = Append(@, Event("alice", "send", m))] ELSE c

AliceSendRaises(c, sent) == c.srv \notin {"pending", "open"} /\ ~sent

(* ------------------------------------------------------------------ *)
(* BobServer                                                           *)
(* ------------------------------------------------------------------ *)

\* what handle_game / play_game returned: None or (alice_sum, bob_sum, winner);
\* ok records whether the round ran to its end (HW06 returns None either way)
NoResult == [ret |-> "pending", ok |-> FALSE, alice_sum |-> 0, bob_sum |-> 0, winner |-> 0]
ReturnNone == [ret |-> "None", ok |-> FALSE, alice_sum |-> 0, bob_sum |-> 0, winner |-> 0]
ReturnDone == [ret |-> "None", ok |-> TRUE, alice_sum |-> 0, bob_sum |-> 0, winner |-> 0]
ReturnTuple(a, b, w) ==
    [ret |-> "tuple", ok |-> TRUE, alice_sum |-> a, bob_sum |-> b, winner |-> w]

\* the branch on which handle_game returned: the text of its ERROR or <<"ok">>
NoExit == <<>>

\* the locals of handle_game before its first statement
BobLocals == [alice_commitment |-> Sha256(<<>>), num_dice |-> 0,
              bob_move |-> <<>>, bob_dice |-> <<>>, bob_sum |-> 0,
              alice_move |-> <<>>, alice_dice |-> <<>>, alice_sum |-> 0,
              alice_nonce |-> <<>>, verified |-> FALSE]

\* the receive of a handler: the message leaves the queue and is logged
BobTake(c) ==
    IF c.a2b = <<>> THEN c
    ELSE [c EXCEPT !.a2b = Tail(@), !.log = Append(@, Event("bob", "recv", Head(c.a2b)))]

\* an except branch whose own send is not guarded: when it raises, the exception
\* leaves handle_game
BobExcept_escapes(c, l, text, esent) ==
    IF BobSendRaises(c, esent)
    THEN [conn |-> c, locals |-> l, next |-> "raised", result |-> NoResult, exit |-> text]
    ELSE [conn |-> BobPut(c, ErrorMsg(text), esent), locals |-> l, next |-> "return",
          result |-> ReturnNone, exit |-> text]

\* an except branch that writes its ERROR a second time
BobExcept_twice(c, l, text, esent) ==
    [conn |-> BobPut(BobPut(c, ErrorMsg(text), esent), ErrorMsg(text), esent),
     locals |-> l, next |-> "return", result |-> ReturnNone, exit |-> text]

\* the except branch of handle_game: best-effort ERROR with str(e), return None
BobExcept(c, l, text, esent) ==
    [conn |-> BobPut(c, ErrorMsg(text), esent), locals |-> l, next |-> "return",
     result |-> ReturnNone, exit |-> text]

\* an `if ...: send_message(conn, MSG_ERROR, ...); return None` branch; when the
\* send raises, the except branch runs
BobReject(c, l, text, sent, esent) ==
    IF BobSendRaises(c, sent)
    THEN [BobExcept(c, l, <<"Broken pipe">>, esent) EXCEPT !.exit = text]
    ELSE [conn |-> BobPut(c, ErrorMsg(text), sent), locals |-> l, next |-> "return",
          result |-> ReturnNone, exit |-> text]

\* commitment strings that are no digests: a lone surrogate (the JSON escape
\* \ud800, which json.loads accepts) among the first 16 characters, or after them
SurrogateHead == <<"text", <<"U+D800">>>>
SurrogateTail == <<"text", <<"0123456789abcdef", "U+D800">>>>

\* alice_commitment[:16]
First16(commitment) ==
    IF commitment[1] = "text" THEN <<"text", <<commitment[2][1]>>>> ELSE commitment

\* print(...) of a string on a UTF-8 stdout raises UnicodeEncodeError when the
\* string holds a lone surrogate
PrintRaises(str) ==
    str[1] = "text" /\ \E k \in 1..Len(str[2]) : str[2][k] = "U+D800"

EncodeErrorText == <<"'utf-8' codec can't encode character">>

\* the values Bob may pick in phase 2: choose_move() or roll_dice(num_dice)
BobChoices(g, m) ==
    IF g = "rps" THEN VALID_MOVES
    ELSE IF m.type = MSG_COMMIT /\ "num_dice" \in DOMAIN m.data
         THEN roll_dice(m.data.num_dice) ELSE {<<>>}

\* the RESPONSE message Bob sends in phase 2
BobResponse(g, choice) ==
    IF g = "rps" THEN Msg(MSG_MOVE, [move |-> choice])
    ELSE Msg(MSG_RESULT, [bob_sum |-> calculate_sum(choice), bob_dice |-> choice])

\* Bob going on to phase 3 without having written his value
SendResponse_skipped(g, c, l, choice, sent, esent) ==
    [conn |-> c, locals |-> l, next |-> "wait_reveal", result |-> NoResult, exit |-> NoExit]

\* a phase 2 that tries the commitment against rock and against a sum of 1 with
\* the nonces it knows, and answers a hit with the value that beats it
SendResponse_peeks(g, c, l, choice, sent, esent) ==
    LET hit == \E n \in Nonces :
                   l.alice_commitment = commit(IF g = "rps" THEN ROCK ELSE PyStr(1), n)
        mine == IF ~hit THEN choice ELSE IF g = "rps" THEN PAPER ELSE <<DieMax>>
    IN  [conn |-> BobPut(c, BobResponse(g, mine), sent), locals |-> l,
         next |-> "wait_reveal", result |-> NoResult, exit |-> NoExit]

\* phase 2: send_message(conn, MSG_MOVE / MSG_RESULT, ...), then on to phase 3
SendResponse(g, c, l, choice, sent, esent) ==
    IF BobSendRaises(c, sent) THEN BobExcept(c, l, <<"Broken pipe">>, esent)
    ELSE [conn |-> BobPut(c, BobResponse(g, choice), sent), locals |-> l,
          next |-> "wait_reveal", result |-> NoResult, exit |-> NoExit]

\* a handler that takes whatever arrives first for the commitment
IsCommit_any(m) == TRUE

\* the type test of phase 1: msg['type'] != MSG_COMMIT
IsCommit(m) == m.type = MSG_COMMIT

\* handle_game, phases 1 and 2: from the receive of Alice's commitment up to the
\* next blocking receive (or the return)
HandleCommit(g, c, choice, sent, esent) ==
    LET r == RecvOutcome(c.a2b)
        c1 == BobTake(c)
        m == r.msg
        l == BobLocals
    IN  IF r.kind = "exc" THEN BobExcept(c1, l, r.text, esent)
        ELSE IF ~IsCommit(m)
        THEN BobReject(c1, l, <<"Expected COMMIT message">>, sent, esent)
        ELSE IF "commitment" \notin DOMAIN m.data
        THEN BobExcept(c1, l, <<"'commitment'">>, esent)
        ELSE IF g = "dice" /\ "num_dice" \notin DOMAIN m.data
        THEN BobExcept(c1, l, <<"'num_dice'">>, esent)
        ELSE IF PrintRaises(First16(m.data.commitment))
        THEN BobExcept(c1, l, EncodeErrorText, esent)
        ELSE LET l1 == [l EXCEPT !.alice_commitment = m.data.commitment,
                                 !.num_dice = IF g = "dice" THEN m.data.num_dice ELSE 0,
                                 !.bob_move = IF g = "rps" THEN choice ELSE <<>>,
                                 !.bob_dice = IF g = "dice" THEN choice ELSE <<>>,
                                 !.bob_sum = IF g = "dice" THEN calculate_sum(choice) ELSE 0]
             IN  SendResponse(g, c1, l1, choice, sent, esent)

\* the fields handle_game reads from the REVEAL payload, in the order it reads them
RevealFields(g) == IF g = "rps" THEN <<"move", "nonce">>
                   ELSE <<"alice_sum", "alice_dice", "nonce">>

\* the first of the fields that the payload lacks (the KeyError), or "" if none
RECURSIVE MissingField(_, _)
MissingField(fields, data) ==
    IF fields = <<>> THEN ""
    ELSE IF Head(fields) \notin DOMAIN data THEN Head(fields)
    ELSE MissingField(Tail(fields), data)

\* phase 4, first check: is_valid_move(alice_move) in HW06,
\* alice_sum == sum(alice_dice) in HW07
RevealValid(g, data) ==
    IF g = "rps" THEN is_valid_move(data.move)
    ELSE data.alice_sum = SeqSum(data.alice_dice)

InvalidText(g, data) ==
    IF g = "rps" THEN <<"Invalid move: ", data.move>>
    ELSE <<"Invalid sum! Dice ", data.alice_dice, " != sum ", data.alice_sum>>

\* the string handed to verify: alice_move in HW06, str(alice_sum) in HW07
RevealValue(g, data) == IF g = "rps" THEN data.move ELSE PyStr(data.alice_sum)

CheatText == <<"Commitment verification failed! Cheating detected!">>

\* the winner computed with the two values in the other order
BobWinner_swapped(g, l, data) ==
    IF g = "rps" THEN determine_winner(l.bob_move, data.move)
    ELSE dice_determine_winner(l.bob_sum, data.alice_sum)

\* phase 5: the winner and the final message
BobWinner(g, l, data) ==
    IF g = "rps" THEN determine_winner(data.move, l.bob_move)
    ELSE dice_determine_winner(data.alice_sum, l.bob_sum)

BobFinal(g, l, data) ==
    LET winner == BobWinner(g, l, data)
    IN  IF g = "rps"
        THEN Msg(MSG_RESULT, [winner |-> winner, alice_move |-> data.move,
                              bob_move |-> l.bob_move,
                              message |-> get_result_message(winner, data.move, l.bob_move)])
        ELSE Msg(MSG_MATCH_RESULT,
                 [winner |-> winner, alice_sum |-> data.alice_sum,
                  alice_dice |-> data.alice_dice, bob_sum |-> l.bob_sum,
                  bob_dice |-> l.bob_dice,
                  message |-> dice_get_result_message(winner, data.alice_sum, l.bob_sum)])

\* a handler that takes whatever arrives second for the reveal
IsReveal_any(m) == TRUE

\* the type test of phase 3: msg['type'] != MSG_REVEAL
IsReveal(m) == m.type = MSG_REVEAL

\* the branch `if not is_valid:` of phase 4: the ERROR is written, then the
\* commitment is printed in full; when that print raises, the except branch runs
\* with the ERROR already on the wire
CheatBranch(c, l, sent, esent) ==
    IF BobSendRaises(c, sent) \/ ~PrintRaises(l.alice_commitment)
    THEN BobReject(c, l, CheatText, sent, esent)
    ELSE [BobExcept(BobPut(c, ErrorMsg(CheatText), sent), l, EncodeErrorText, esent)
              EXCEPT !.exit = CheatText]

\* handle_game, phases 3 to 5: from the receive of Alice's reveal to the return
HandleReveal(g, c, l, sent, esent) ==
    LET r == RecvOutcome(c.a2b)
        c1 == BobTake(c)
        m == r.msg
    IN  IF r.kind = "exc" THEN BobExcept(c1, l, r.text, esent)
        ELSE IF ~IsReveal(m)
        THEN BobReject(c1, l, <<"Expected REVEAL message">>, sent, esent)
        ELSE IF MissingField(RevealFields(g), m.data) # ""
        THEN BobExcept(c1, l, <<"'", MissingField(RevealFields(g), m.data), "'">>, esent)
        ELSE LET l1 == [l EXCEPT !.alice_move = IF g = "rps" THEN m.data.move ELSE <<>>,
                                 !.alice_dice = IF g = "dice" THEN m.data.alice_dice ELSE <<>>,
                                 !.alice_sum = IF g = "dice" THEN m.data.alice_sum ELSE 0,
                                 !.alice_nonce = m.data.nonce]
             IN  IF ~RevealValid(g, m.data)
                 THEN BobReject(c1, l1, InvalidText(g, m.data), sent, esent)
                 ELSE IF ~verify(l.alice_commitment, RevealValue(g, m.data), m.data.nonce)
                 THEN CheatBranch(c1, l1, sent, esent)
                 ELSE LET l2 == [l1 EXCEPT !.verified = TRUE]
                      IN  IF BobSendRaises(c1, sent)
                          THEN BobExcept(c1, l2, <<"Broken pipe">>, esent)
                          ELSE [conn |-> BobPut(c1, BobFinal(g, l2, m.data), sent),
                                locals |-> l2, next |-> "return", exit |-> <<"ok">>,
                                result |-> IF g = "rps" THEN ReturnDone
                                           ELSE ReturnTuple(m.data.alice_sum, l2.bob_sum,
                                                            BobWinner(g, l2, m.data))]

\* a tally that counts a tie for a game that returned None
BobTally_counts_failures(g, b, result) ==
    IF g = "rps" THEN b
    ELSE IF result.ret # "tuple" THEN [b EXCEPT !.ties = @ + 1]
    ELSE IF result.winner = 1 THEN [b EXCEPT !.alice_wins = @ + 1]
    ELSE IF result.winner = 2 THEN [b EXCEPT !.bob_wins = @ + 1]
    ELSE [b EXCEPT !.ties = @ + 1]

\* the tally update of run_match (HW07); run (HW06) keeps no tally
BobTally(g, b, result) ==
    IF g = "rps" \/ result.ret # "tuple" THEN b
    ELSE IF result.winner = 1 THEN [b EXCEPT !.alice_wins = @ + 1]
    ELSE IF result.winner = 2 THEN [b EXCEPT !.bob_wins = @ + 1]
    ELSE [b EXCEPT !.ties = @ + 1]

\* the position of the accept loop after a handle_game that returned: HW06 loops
\* forever, HW07 leaves the loop after num_games connections
BobLoop(g, b) ==
    IF g = "rps" THEN [b EXCEPT !.pc = "accept"]
    ELSE IF b.game_num >= NumGames THEN [b EXCEPT !.pc = "done"]
    ELSE [b EXCEPT !.pc = "accept", !.game_num = @ + 1]

\* what a step of handle_game leaves behind: the connection (closed by `with conn`
\* when handle_game returned) and Bob's state
BobAfter(g, b, out) ==
    IF out.next = "return"
    THEN BobLoop(g, BobTally(g, [b EXCEPT !.locals = out.locals, !.result = out.result,
                                          !.exit = out.exit],
                             out.result))
    ELSE [b EXCEPT !.pc = out.next, !.locals = out.locals, !.result = out.result]

\* an accept loop without `with conn`: the socket stays open after the return
ConnAfter_left_open(out) == out.conn

ConnAfter(out) ==
    IF out.next = "return" THEN [out.conn EXCEPT !.srv = "closed"] ELSE out.conn

\* A connection that every code-following end has closed is dead: nothing written
\* on it is read by the code any more. It keeps nothing once a later connection is
\* opened or accepted.
Dead(m, c) == /\ (m # "rogue_client" => c.cli = "closed")
              /\ (m # "rogue_server" => c.srv = "closed")

Forget(m, c) == IF Dead(m, c) THEN [UnusedConn EXCEPT !.cli = "closed", !.srv = "closed"]
                ELSE c

\* server_socket.accept(): the oldest connection waiting in the backlog
BobAccept ==
    /\ mode # "rogue_server"
    /\ bob.pc = "accept"
    /\ \E i \in ConnIds :
        /\ conns[i].srv = "pending"
        /\ \A j \in ConnIds : j < i => conns[j].srv # "pending"
        /\ conns' = [j \in ConnIds |-> IF j = i THEN [conns[j] EXCEPT !.srv = "open"]
                                        ELSE Forget(mode, conns[j])]
        /\ bob' = [bob EXCEPT !.pc = "wait_commit", !.conn = i, !.locals = BobLocals,
                              !.result = NoResult, !.exit = NoExit]
    /\ UNCHANGED <<lab, game, mode, alice, budget>>

BobRecvCommit ==
    /\ bob.pc = "wait_commit"
    /\ LET c == conns[bob.conn]
       IN  /\ RecvReady(c.a2b, c.cli)
           /\ \E choice \in BobChoices(game, RecvOutcome(c.a2b).msg),
                 sent \in (IF c.cli = "open" THEN {TRUE} ELSE BOOLEAN),
                 esent \in (IF c.cli = "open" THEN {TRUE} ELSE BOOLEAN) :
                LET out == HandleCommit(game, c, choice, sent, esent)
                IN  /\ conns' = [conns EXCEPT ![bob.conn] = ConnAfter(out)]
                    /\ bob' = BobAfter(game, bob, out)
    /\ UNCHANGED <<lab, game, mode, alice, budget>>

BobRecvReveal ==
    /\ bob.pc = "wait_reveal"
    /\ LET c == conns[bob.conn]
       IN  /\ RecvReady(c.a2b, c.cli)
           /\ \E sent \in (IF c.cli = "open" THEN {TRUE} ELSE BOOLEAN),
                 esent \in (IF c.cli = "open" THEN {TRUE} ELSE BOOLEAN) :
                LET out == HandleReveal(game, c, bob.locals, sent, esent)
                IN  /\ conns' = [conns EXCEPT ![bob.conn] = ConnAfter(out)]
                    /\ bob' = BobAfter(game, bob, out)
    /\ UNCHANGED <<lab, game, mode, alice, budget>>

BobInit == [pc |-> "accept", game_num |-> 1, conn |-> 1, locals |-> BobLocals,
            result |-> NoResult, exit |-> NoExit, alice_wins |-> 0, bob_wins |-> 0, ties |-> 0]

(* ------------------------------------------------------------------ *)
(* AliceClient                                                         *)
(* ------------------------------------------------------------------ *)

\* the locals of play_game before its first statement
AliceLocals == [alice_move |-> <<>>, alice_dice |-> <<>>, alice_sum |-> 0,
                alice_nonce |-> <<>>, alice_commitment |-> Sha256(<<>>),
                bob_move |-> <<>>, bob_dice |-> <<>>, bob_sum |-> 0]

\* a receive that reads the message and leaves it in the queue
AliceTake_peeks(c) ==
    IF c.b2a = <<>> THEN c
    ELSE [c EXCEPT !.log = Append(@, Event("alice", "recv", Head(c.b2a)))]

AliceTake(c) ==
    IF c.b2a = <<>> THEN c
    ELSE [c EXCEPT !.b2a = Tail(@), !.log = Append(@, Event("alice", "recv", Head(c.b2a)))]

\* the values Alice may pick in phase 1: choose_move() or roll_dice(self.num_dice)
AliceChoices(g, num_dice) == IF g = "rps" THEN VALID_MOVES ELSE roll_dice(num_dice)

\* the string Alice commits to: alice_move in HW06, str(alice_sum) in HW07
AliceValue(g, choice) == IF g = "rps" THEN choice ELSE PyStr(calculate_sum(choice))

AliceCommitMsg(g, commitment, num_dice) ==
    IF g = "rps" THEN Msg(MSG_COMMIT, [commitment |-> commitment])
    ELSE Msg(MSG_COMMIT, [commitment |-> commitment, num_dice |-> num_dice])

AliceRevealMsg(g, l) ==
    IF g = "rps" THEN Msg(MSG_REVEAL, [move |-> l.alice_move, nonce |-> l.alice_nonce])
    ELSE Msg(MSG_REVEAL, [alice_sum |-> l.alice_sum, alice_dice |-> l.alice_dice,
                          nonce |-> l.alice_nonce])

\* the type play_game expects in phase 2 and in phase 4
ResponseType(g) == IF g = "rps" THEN MSG_MOVE ELSE MSG_RESULT
FinalType(g) == IF g = "rps" THEN MSG_RESULT ELSE MSG_MATCH_RESULT

ResponseFields(g) == IF g = "rps" THEN <<"move">> ELSE <<"bob_sum", "bob_dice">>
FinalFields == <<"winner", "message">>

AliceFail(c, l) == [conn |-> c, locals |-> l, next |-> "return", result |-> ReturnNone]

\* a phase 2 that takes whatever message arrived for Bob's value
IsResponse_any(g, m) == TRUE

\* the two type tests of phase 2: not an ERROR, and the type of Bob's value
IsResponse(g, m) == m.type # MSG_ERROR /\ m.type = ResponseType(g)

\* a phase 1 that keeps the nonce of the round before, when there was one
PlayCommit_keeps_nonce(g, c, num_dice, choice, nonce, sent) ==
    LET value == AliceValue(g, choice)
        kept == IF alice.locals.alice_nonce # <<>> THEN alice.locals.alice_nonce ELSE nonce
        commitment == commit(value, kept)
        l == [AliceLocals EXCEPT !.alice_move = IF g = "rps" THEN choice ELSE <<>>,
                                 !.alice_dice = IF g = "dice" THEN choice ELSE <<>>,
                                 !.alice_sum = IF g = "dice" THEN calculate_sum(choice) ELSE 0,
                                 !.alice_nonce = kept,
                                 !.alice_commitment = commitment]
    IN  [conn |-> AlicePut(c, AliceCommitMsg(g, commitment, num_dice), sent),
         locals |-> l, next |-> "wait_response", result |-> NoResult]

\* play_game, phase 1: connect, choose, commit, send COMMIT
PlayCommit(g, c, num_dice, choice, nonce, sent) ==
    LET value == AliceValue(g, choice)
        commitment == commit(value, nonce)
        l == [AliceLocals EXCEPT !.alice_move = IF g = "rps" THEN choice ELSE <<>>,
                                 !.alice_dice = IF g = "dice" THEN choice ELSE <<>>,
                                 !.alice_sum = IF g = "dice" THEN calculate_sum(choice) ELSE 0,
                                 !.alice_nonce = nonce,
                                 !.alice_commitment = commitment]
    IN  IF AliceSendRaises(c, sent) THEN AliceFail(c, l)
        ELSE [conn |-> AlicePut(c, AliceCommitMsg(g, commitment, num_dice), sent),
              locals |-> l, next |-> "wait_response", result |-> NoResult]

\* play_game, phases 2 and 3: receive Bob's value, reveal
PlayReveal(g, c, l, sent) ==
    LET r == RecvOutcome(c.b2a)
        c1 == AliceTake(c)
        m == r.msg
    IN  IF r.kind = "exc" THEN AliceFail(c1, l)
        ELSE IF ~IsResponse(g, m) THEN AliceFail(c1, l)
        ELSE IF MissingField(ResponseFields(g), m.data) # "" THEN AliceFail(c1, l)
        ELSE LET l1 == [l EXCEPT !.bob_move = IF g = "rps" THEN m.data.move ELSE <<>>,
                                 !.bob_sum = IF g = "dice" THEN m.data.bob_sum ELSE 0,
                                 !.bob_dice = IF g = "dice" THEN m.data.bob_dice ELSE <<>>]
             IN  IF AliceSendRaises(c1, sent) THEN AliceFail(c1, l1)
                 ELSE [conn |-> AlicePut(c1, AliceRevealMsg(g, l1), sent), locals |-> l1,
                       next |-> "wait_result", result |-> NoResult]

\* play_game, phase 4: receive the result; HW07 returns (alice_sum, bob_sum, winner)
PlayResult(g, c, l) ==
    LET r == RecvOutcome(c.b2a)
        c1 == AliceTake(c)
        m == r.msg
    IN  IF r.kind = "exc" THEN AliceFail(c1, l)
        ELSE IF m.type = MSG_ERROR THEN AliceFail(c1, l)
        ELSE IF m.type # FinalType(g) THEN AliceFail(c1, l)
        ELSE IF MissingField(FinalFields, m.data) # "" THEN AliceFail(c1, l)
        ELSE [conn |-> c1, locals |-> l, next |-> "return",
              result |-> IF g = "rps" THEN ReturnDone
                         ELSE ReturnTuple(l.alice_sum, l.bob_sum, m.data.winner)]

\* a tally that reads the winner number from the other side of the table
AliceTally_other_side(g, a, result) ==
    IF g = "rps" \/ result.ret # "tuple" THEN a
    ELSE IF result.winner = 2 THEN [a EXCEPT !.alice_wins = @ + 1]
    ELSE IF result.winner = 1 THEN [a EXCEPT !.bob_wins = @ + 1]
    ELSE [a EXCEPT !.ties = @ + 1]

\* the tally update of play_match (HW07); run (HW06) keeps no tally
AliceTally(g, a, result) ==
    IF g = "rps" \/ result.ret # "tuple" THEN a
    ELSE IF result.winner = 1 THEN [a EXCEPT !.alice_wins = @ + 1]
    ELSE IF result.winner = 2 THEN [a EXCEPT !.bob_wins = @ + 1]
    ELSE [a EXCEPT !.ties = @ + 1]

\* a match loop that goes on to the next game whatever happened
AliceLoop_goes_on(g, a, result) ==
    IF a.game_num >= NumGames THEN [a EXCEPT !.pc = "done"]
    ELSE [a EXCEPT !.pc = "start", !.game_num = @ + 1]

\* the match loop after a play_game that returned: run (HW06) goes on to the next
\* game whatever happened, play_match (HW07) returns when the game failed
AliceLoop(g, a, result) ==
    IF g = "dice" /\ result.ret = "None" THEN [a EXCEPT !.pc = "aborted"]
    ELSE IF a.game_num >= NumGames THEN [a EXCEPT !.pc = "done"]
    ELSE [a EXCEPT !.pc = "start", !.game_num = @ + 1]

AliceAfter(g, a, out) ==
    IF out.next = "return"
    THEN AliceLoop(g, AliceTally(g, [a EXCEPT !.locals = out.locals,
                                              !.result = out.result], out.result),
                   out.result)
    ELSE [a EXCEPT !.pc = out.next, !.locals = out.locals, !.result = out.result]

\* `with socket.socket(...)` closes the socket when play_game returns
AliceConnAfter(out) ==
    IF out.next = "return" THEN [out.conn EXCEPT !.cli = "closed"] ELSE out.conn

\* sock.connect: the connection waits in Bob's backlog until he accepts it
Connect(m, cs, i) ==
    [j \in ConnIds |-> IF j = i THEN [UnusedConn EXCEPT !.cli = "open", !.srv = "pending"]
                       ELSE Forget(m, cs[j])]

\* the locals and the return value of a handle_game that returned are dead once
\* the next connection is opened
BobIdle(b) == IF b.pc = "wait_commit" \/ b.pc = "wait_reveal" THEN b
              ELSE [b EXCEPT !.locals = BobLocals, !.result = NoResult, !.exit = NoExit]

AlicePlayGame ==
    /\ mode # "rogue_client"
    /\ alice.pc = "start"
    /\ conns[alice.game_num].cli = "unused"
    /\ \E choice \in AliceChoices(game, alice.num_dice), nonce \in Nonces :
        LET cs == Connect(mode, conns, alice.game_num)
            out == PlayCommit(game, cs[alice.game_num], alice.num_dice, choice, nonce, TRUE)
        IN  /\ conns' = [cs EXCEPT ![alice.game_num] = AliceConnAfter(out)]
            /\ alice' = AliceAfter(game, [alice EXCEPT !.conn = alice.game_num], out)
    /\ bob' = BobIdle(bob)
    /\ UNCHANGED <<lab, game, mode, budget>>

AliceRecvResponse ==
    /\ alice.pc = "wait_response"
    /\ LET c == conns[alice.conn]
       IN  /\ RecvReady(c.b2a, c.srv)
           /\ \E sent \in (IF c.srv \in {"pending", "open"} THEN {TRUE} ELSE BOOLEAN) :
                LET out == PlayReveal(game, c, alice.locals, sent)
                IN  /\ conns' = [conns EXCEPT ![alice.conn] = AliceConnAfter(out)]
                    /\ alice' = AliceAfter(game, alice, out)
    /\ UNCHANGED <<lab, game, mode, bob, budget>>

AliceRecvResult ==
    /\ alice.pc = "wait_result"
    /\ LET c == conns[alice.conn]
           out == PlayResult(game, c, alice.locals)
       IN  /\ RecvReady(c.b2a, c.srv)
           /\ conns' = [conns EXCEPT ![alice.conn] = AliceConnAfter(out)]
           /\ alice' = AliceAfter(game, alice, out)
    /\ UNCHANGED <<lab, game, mode, bob, budget>>

AliceInit(num_dice) ==
    [pc |-> "start", game_num |-> 1, conn |-> 1, num_dice |-> num_dice,
     locals |-> AliceLocals, result |-> NoResult,
     alice_wins |-> 0, bob_wins |-> 0, ties |-> 0]

\* the figures of the report run_match prints after the loop: 'Total games
\* played' is num_games
BobReport(num_games, alice_wins, bob_wins, ties) ==
    [total |-> num_games, alice_wins |-> alice_wins, bob_wins |-> bob_wins, ties |-> ties]

\* the same for play_match
AliceReport(num_games, alice_wins, bob_wins, ties) ==
    [total |-> num_games, alice_wins |-> alice_wins, bob_wins |-> bob_wins, ties |-> ties]

(* ------------------------------------------------------------------ *)
(* Peers that do not follow the code                                   *)
(* ------------------------------------------------------------------ *)

LIZARD == <<"l", "i", "z", "a", "r", "d">>

RogueNonce == CHOOSE n \in Nonces : TRUE

OtherNonce == CHOOSE n \in Nonces : n # RogueNonce

\* COMMIT payloads: commitments to a legal and to an illegal move (HW06), to sums
\* with the dice count they are claimed for (HW07)
RogueCommits(g) ==
    IF g = "rps"
    THEN {[commitment |-> commit(v, RogueNonce)] : v \in {ROCK, LIZARD}}
         \cup {[commitment |-> t] : t \in {SurrogateHead, SurrogateTail}}
    ELSE {[commitment |-> commit(PyStr(3), RogueNonce), num_dice |-> 1],
          [commitment |-> commit(PyStr(7), RogueNonce), num_dice |-> 1]}
         \cup {[commitment |-> t, num_dice |-> 1] : t \in {SurrogateHead, SurrogateTail}}

\* REVEAL payloads: the committed value, another legal value, an illegal value,
\* another nonce; in HW07 also dice that do not add up to the sum, a die that
\* shows 7 and more dice than announced
RogueReveals(g) ==
    IF g = "rps"
    THEN {[move |-> v, nonce |-> RogueNonce] : v \in {ROCK, PAPER, LIZARD}}
         \cup {[move |-> ROCK, nonce |-> OtherNonce]}
    ELSE {[alice_sum |-> SeqSum(d), alice_dice |-> d, nonce |-> RogueNonce] :
              d \in {<<3>>, <<4>>, <<7>>, <<3, 4>>}}
         \cup {[alice_sum |-> 7, alice_dice |-> <<3>>, nonce |-> RogueNonce],
               [alice_sum |-> 3, alice_dice |-> <<3>>, nonce |-> OtherNonce]}

\* the number of messages a side has written on a connection
RECURSIVE SentBy(_, _)
SentBy(log, who) ==
    IF log = <<>> THEN 0
    ELSE (IF Head(log).by = who /\ Head(log).op = "send" THEN 1 ELSE 0)
         + SentBy(Tail(log), who)

\* What a client that ignores play_game may write on a connection as its message
\* number k + 1. handle_game reads two messages and tells apart, for each, a
\* receive that fails, a wrong type, a missing field and the payload: one message
\* of each kind is enough, except for the payloads. A third message on a
\* connection is never read.
RogueClientMsgs(g, k) ==
    IF k = 0
    THEN {Msg(MSG_COMMIT, d) : d \in RogueCommits(g)}
         \cup {Msg(MSG_COMMIT, NoData), Malformed,
               Msg(MSG_REVEAL, CHOOSE d \in RogueReveals(g) : TRUE)}
    ELSE IF k = 1
    THEN {Msg(MSG_REVEAL, d) : d \in RogueReveals(g)}
         \cup {Msg(MSG_REVEAL, NoData), Malformed, Msg(MSG_COMMIT, NoData)}
    ELSE {}

RogueWinners == {0, 1, 2, 5}

\* the same for a server that ignores handle_game
RogueServerMsgs(g, k) ==
    IF k = 0
    THEN {IF g = "rps" THEN Msg(MSG_MOVE, [move |-> ROCK])
                       ELSE Msg(MSG_RESULT, [bob_sum |-> 3, bob_dice |-> <<3>>]),
          Msg(ResponseType(g), NoData), ErrorMsg(<<"x">>), Malformed,
          Msg(FinalType(g), [winner |-> 1, message |-> <<"x">>]),
          IF g = "rps" THEN Msg(MSG_COMMIT, [move |-> ROCK])
                       ELSE Msg(MSG_COMMIT, [bob_sum |-> 3, bob_dice |-> <<3>>])}
    ELSE IF k = 1
    THEN {Msg(FinalType(g), [winner |-> w, message |-> <<"x">>]) :
              w \in IF g = "rps" THEN {1} ELSE RogueWinners}
         \cup {Msg(FinalType(g), NoData), ErrorMsg(<<"x">>), Malformed,
               Msg(MSG_COMMIT, NoData)}
    ELSE {}

RogueConnect ==
    /\ mode = "rogue_client"
    /\ \E i \in ConnIds :
        /\ conns[i].cli = "unused"
        /\ \A j \in ConnIds : j < i => conns[j].cli # "unused"
        /\ conns' = Connect(mode, conns, i)
    /\ bob' = BobIdle(bob)
    /\ UNCHANGED <<lab, game, mode, alice, budget>>

RogueClientSend ==
    /\ mode = "rogue_client"
    /\ budget > 0
    /\ \E i \in ConnIds :
        /\ conns[i].cli = "open"
        /\ ~Dead(mode, conns[i])
        /\ \E m \in RogueClientMsgs(game, SentBy(conns[i].log, "alice")) :
            conns' = [conns EXCEPT ![i] = AlicePut(@, m, TRUE)]
    /\ budget' = budget - 1
    /\ UNCHANGED <<lab, game, mode, alice, bob>>

RogueClientClose ==
    /\ mode = "rogue_client"
    /\ \E i \in ConnIds :
        /\ conns[i].cli = "open"
        /\ ~Dead(mode, conns[i])
        /\ conns' = [conns EXCEPT ![i].cli = "closed"]
    /\ UNCHANGED <<lab, game, mode, alice, bob, budget>>

RogueAccept ==
    /\ mode = "rogue_server"
    /\ \E i \in ConnIds :
        /\ conns[i].srv = "pending"
        /\ conns' = [conns EXCEPT ![i].srv = "open"]
    /\ UNCHANGED <<lab, game, mode, alice, bob, budget>>

RogueServerSend ==
    /\ mode = "rogue_server"
    /\ budget > 0
    /\ \E i \in ConnIds :
        /\ conns[i].srv = "open"
        /\ ~Dead(mode, conns[i])
        /\ \E m \in RogueServerMsgs(game, SentBy(conns[i].log, "bob")) :
            conns' = [conns EXCEPT ![i] = BobPut(@, m, TRUE)]
    /\ budget' = budget - 1
    /\ UNCHANGED <<lab, game, mode, alice, bob>>

RogueServerClose ==
    /\ mode = "rogue_server"
    /\ \E i \in ConnIds :
        /\ conns[i].srv = "open"
        /\ ~Dead(mode, conns[i])
        /\ conns' = [conns EXCEPT ![i].srv = "closed"]
    /\ UNCHANGED <<lab, game, mode, alice, bob, budget>>

(* ------------------------------------------------------------------ *)
(* The protocol                                                        *)
(* ------------------------------------------------------------------ *)

NoLab == [pc |-> "off"]

Init ==
    /\ game \in {"rps", "dice"}
    /\ mode \in {"honest", "rogue_client", "rogue_server"}
    /\ conns = [i \in ConnIds |-> UnusedConn]
    /\ \E num_dice \in 1..MaxNumDice : alice = AliceInit(num_dice)
    /\ bob = BobInit
    /\ budget = IF mode = "honest" THEN 0 ELSE MaxIntruderMsgs
    /\ lab = NoLab

Next ==
    \/ AlicePlayGame
    \/ AliceRecvResponse
    \/ AliceRecvResult
    \/ BobAccept
    \/ BobRecvCommit
    \/ BobRecvReveal
    \/ RogueConnect
    \/ RogueClientSend
    \/ RogueClientClose
    \/ RogueAccept
    \/ RogueServerSend
    \/ RogueServerClose

Spec == Init /\ [][Next]_vars

(* ------------------------------------------------------------------ *)
(* Properties of a round                                               *)
(* ------------------------------------------------------------------ *)

IsRecv(e, who) == e.by = who /\ e.op = "recv"
IsSend(e, who) == e.by = who /\ e.op = "send"

\* the messages one side received / wrote on a connection, in order
Recvs(log, who) == SelectSeq(log, LAMBDA e : IsRecv(e, who))
Sends(log, who) == SelectSeq(log, LAMBDA e : IsSend(e, who))
AllSends(log) == SelectSeq(log, LAMBDA e : e.op = "send")

TypesOf(events) == [k \in 1..Len(events) |-> events[k].msg.type]

IsPrefix(s, t) == Len(s) <= Len(t) /\ \A k \in 1..Len(s) : s[k] = t[k]

BobFollowsCode == mode # "rogue_server"
AliceFollowsCode == mode # "rogue_client"
FollowsCode(who) == IF who = "bob" THEN BobFollowsCode ELSE AliceFollowsCode

\* C1: in both games Bob sends his RESPONSE (MOVE / RESULT) strictly before he
\* receives Alice's REVEAL. With two peers that follow the code every REVEAL Bob
\* receives comes after his RESPONSE; with any client, a REVEAL that Bob receives
\* in phase 3 (after the message of phase 1) comes after his RESPONSE.
C1_ResponseBeforeReveal ==
    BobFollowsCode =>
        \A i \in ConnIds :
            LET log == conns[i].log
            IN  \A p \in 1..Len(log) :
                    ( /\ IsRecv(log[p], "bob")
                      /\ log[p].msg.type = MSG_REVEAL
                      /\ \/ mode = "honest"
                         \/ \E q \in 1..(p - 1) : IsRecv(log[q], "bob") )
                    => \E q \in 1..(p - 1) :
                           IsSend(log[q], "bob") /\ log[q].msg.type = ResponseType(game)

C1_Witness ==
    /\ mode = "honest"
    /\ game = "dice"
    /\ \E i \in ConnIds : \E p \in 1..Len(conns[i].log) :
           IsRecv(conns[i].log[p], "bob") /\ conns[i].log[p].msg.type = MSG_REVEAL


\* the values a commitment may have been made to: the moves, an illegal move and
\* the decimal strings of small sums
CommittedValues == VALID_MOVES \cup {LIZARD} \cup {PyStr(k) : k \in 0..(6 * (MaxNumDice + 1))}

\* Bob's first receive on connection i was a COMMIT of commit(A, n) and his second
\* a complete REVEAL of a valid value B # A with the same nonce n
Cheated(i) ==
    LET r == Recvs(conns[i].log, "bob")
    IN  /\ Len(r) >= 2
        /\ r[1].msg.type = MSG_COMMIT
        /\ "commitment" \in DOMAIN r[1].msg.data
        /\ game = "dice" => "num_dice" \in DOMAIN r[1].msg.data
        /\ r[2].msg.type = MSG_REVEAL
        /\ MissingField(RevealFields(game), r[2].msg.data) = ""
        /\ RevealValid(game, r[2].msg.data)
        /\ \E A \in CommittedValues :
               /\ r[1].msg.data.commitment = commit(A, r[2].msg.data.nonce)
               /\ RevealValue(game, r[2].msg.data) # A

\* C2: when the client committed to A and reveals a valid B # A with the nonce of
\* the commitment, handle_game returns None through the "Commitment verification
\* failed" branch: Bob writes no RESULT / MATCH_RESULT on the connection, the
\* round has no outcome, and the ERROR he writes (if the client still listens)
\* is the cheating ERROR.
C2_CheatDetected ==
    BobFollowsCode =>
        \A i \in ConnIds :
            Cheated(i) =>
                LET s == Sends(conns[i].log, "bob")
                IN  /\ bob.conn = i
                    /\ bob.pc \notin {"wait_commit", "wait_reveal"}
                    /\ bob.exit = CheatText
                    /\ bob.result = ReturnNone
                    /\ ~bob.locals.verified
                    /\ \A k \in 1..Len(s) : s[k].msg.type # FinalType(game)
                    /\ conns[i].cli = "open" =>
                           /\ Len(s) = 2
                           /\ s[2].msg = ErrorMsg(CheatText)

C2_Witness ==
    /\ mode = "rogue_client"
    /\ \E i \in ConnIds :
           /\ Cheated(i)
           /\ conns[i].cli = "open"
           /\ bob.exit = CheatText
           /\ Sends(conns[i].log, "bob")[2].msg = ErrorMsg(CheatText)


\* C7: when the first message Bob receives on a connection is a well-formed
\* message of a type other than COMMIT (a REVEAL, say), handle_game reads nothing
\* more, returns None through the "Expected COMMIT message" branch, never writes
\* a RESPONSE or a final RESULT on the connection, and the ERROR is the one thing
\* it writes (to a client that still listens).
C7_FirstMessageNotCommit ==
    BobFollowsCode =>
        \A i \in ConnIds :
            LET r == Recvs(conns[i].log, "bob")
                s == Sends(conns[i].log, "bob")
            IN  (/\ Len(r) >= 1
                 /\ r[1].msg.type \notin {MSG_COMMIT, Malformed.type})
                => /\ Len(r) = 1
                   /\ bob.conn = i
                   /\ bob.pc \notin {"wait_commit", "wait_reveal"}
                   /\ bob.exit = <<"Expected COMMIT message">>
                   /\ bob.result = ReturnNone
                   /\ conns[i].srv = "closed"
                   /\ \A k \in 1..Len(s) :
                          /\ s[k].msg.type = MSG_ERROR
                          /\ s[k].msg.type \notin {ResponseType(game), FinalType(game)}
                   /\ Len(s) <= 1
                   /\ conns[i].cli = "open" => s = <<Event("bob", "send",
                                                   ErrorMsg(<<"Expected COMMIT message">>))>>

C7_Witness ==
    /\ mode = "rogue_client"
    /\ \E i \in ConnIds :
           LET r == Recvs(conns[i].log, "bob")
           IN  /\ Len(r) = 1
               /\ r[1].msg.type = MSG_REVEAL
               /\ Sends(conns[i].log, "bob")
                      = <<Event("bob", "send", ErrorMsg(<<"Expected COMMIT message">>))>>
               /\ bob.result = ReturnNone


\* the final message agrees with the REVEAL Bob received and the RESPONSE he wrote
FinalAgrees(g, final, reveal, response) ==
    IF g = "rps"
    THEN /\ final.winner = determine_winner(reveal.move, response.move)
         /\ final.alice_move = reveal.move
         /\ final.bob_move = response.move
    ELSE /\ final.winner = dice_determine_winner(reveal.alice_sum, response.bob_sum)
         /\ final.alice_sum = reveal.alice_sum
         /\ final.alice_dice = reveal.alice_dice
         /\ final.bob_sum = response.bob_sum
         /\ final.bob_dice = response.bob_dice

\* C10: every final RESULT / MATCH_RESULT Bob writes comes after exactly one
\* RESPONSE of his and one REVEAL received on the same connection; its winner is
\* determine_winner(revealed value, value of that RESPONSE) and the values it
\* carries are those two.
C10_ResultFromRevealAndResponse ==
    BobFollowsCode =>
        \A i \in ConnIds :
            LET r == Recvs(conns[i].log, "bob")
                s == Sends(conns[i].log, "bob")
            IN  \A k \in 1..Len(s) :
                    s[k].msg.type = FinalType(game) =>
                        /\ k = 2
                        /\ Len(r) = 2
                        /\ s[1].msg.type = ResponseType(game)
                        /\ r[2].msg.type = MSG_REVEAL
                        /\ FinalAgrees(game, s[2].msg.data, r[2].msg.data, s[1].msg.data)

\* a round whose two values differ, so that the order of the arguments matters
C10_Witness ==
    /\ BobFollowsCode
    /\ \E i \in ConnIds :
           LET s == Sends(conns[i].log, "bob")
           IN  /\ Len(s) = 2
               /\ s[2].msg.type = FinalType(game)
               /\ s[2].msg.data.winner = 2


\* Bob's first two receives on connection i were a complete COMMIT and a complete
\* REVEAL, and handle_game has returned
Revealed(i) ==
    LET r == Recvs(conns[i].log, "bob")
    IN  /\ Len(r) = 2
        /\ r[1].msg.type = MSG_COMMIT
        /\ "commitment" \in DOMAIN r[1].msg.data
        /\ game = "dice" => "num_dice" \in DOMAIN r[1].msg.data
        /\ r[2].msg.type = MSG_REVEAL
        /\ MissingField(RevealFields(game), r[2].msg.data) = ""
        /\ bob.conn = i
        /\ bob.pc \notin {"wait_commit", "wait_reveal"}

\* the declared domain of the dice game: num_dice dice, each of 1..6, hence a sum
\* in num_dice..6*num_dice
DiceInDomain(num_dice, data) ==
    /\ Len(data.alice_dice) = num_dice
    /\ \A k \in 1..Len(data.alice_dice) : data.alice_dice[k] \in DieMin..DieMax
    /\ data.alice_sum \in (DieMin * num_dice)..(DieMax * num_dice)

\* the revealed value lies in the domain of the game
InDomain(g, commitData, data) ==
    IF g = "rps" THEN data.move \in VALID_MOVES
    ELSE DiceInDomain(commitData.num_dice, data) /\ data.alice_sum = SeqSum(data.alice_dice)

\* C8: on a REVEAL Bob checks the validity of the value first and the commitment
\* second: a value outside the domain ends the round on the "invalid" ERROR, also
\* when its commitment verifies, and a final RESULT is written only for a value in
\* the domain whose commitment verified.
C8_ValidityBeforeVerification ==
    BobFollowsCode =>
        \A i \in ConnIds :
            Revealed(i) =>
                LET r == Recvs(conns[i].log, "bob")
                    s == Sends(conns[i].log, "bob")
                    valid == InDomain(game, r[1].msg.data, r[2].msg.data)
                    verified == verify(r[1].msg.data.commitment,
                                       RevealValue(game, r[2].msg.data), r[2].msg.data.nonce)
                IN  /\ ~valid => bob.exit = InvalidText(game, r[2].msg.data)
                    /\ (valid /\ ~verified) => bob.exit = CheatText
                    /\ (\E k \in 1..Len(s) : s[k].msg.type = FinalType(game))
                           => (valid /\ verified)

\* C9: in the dice game a REVEAL whose dice are not each in 1..6, or are not
\* num_dice many, or whose sum is outside num_dice..6*num_dice, never leads to a
\* MATCH_RESULT nor to a round that run_match counts.
C9_DiceDomainEnforced ==
    (BobFollowsCode /\ game = "dice") =>
        \A i \in ConnIds :
            LET r == Recvs(conns[i].log, "bob")
                s == Sends(conns[i].log, "bob")
            IN  (/\ Len(r) = 2
                 /\ \/ \E k \in 1..Len(s) : s[k].msg.type = MSG_MATCH_RESULT
                    \/ bob.conn = i /\ bob.result.ret = "tuple")
                => DiceInDomain(r[1].msg.data.num_dice, r[2].msg.data)


\* the order of a round, and what each side expects as its k-th receive
RoundOrder(g) == <<MSG_COMMIT, ResponseType(g), MSG_REVEAL, FinalType(g)>>
BobExpects(g) == <<MSG_COMMIT, MSG_REVEAL>>
AliceExpects(g) == <<ResponseType(g), FinalType(g)>>

\* how many messages a side had received before position p of a log
RecvsBefore(log, p, who) == Len(Recvs(SubSeq(log, 1, p - 1), who))

\* a side that follows the code reads at most two messages and reads a second
\* one only after a first one of the expected type; a well-formed message of
\* another type is the last thing it reads, and it writes nothing but an ERROR
\* afterwards
TypeChecked(log, who, expects) ==
    LET r == Recvs(log, who)
    IN  /\ Len(r) <= 2
        /\ \A k \in 1..Len(r) : k < Len(r) => r[k].msg.type = expects[k]
        /\ \A p \in 1..Len(log) :
               (IsRecv(log[p], who)
                /\ log[p].msg.type # expects[RecvsBefore(log, p, who) + 1])
               => \A q \in (p + 1)..Len(log) :
                      log[q].by = who => (log[q].op = "send" /\ log[q].msg.type = MSG_ERROR)

\* the phase in which a side writes each of its messages: Bob his RESPONSE after
\* one receive and his final RESULT after two, Alice her COMMIT before any
\* receive and her REVEAL after one
SentInPhase(g, log) ==
    \A p \in 1..Len(log) :
        LET t == log[p].msg.type
            n == RecvsBefore(log, p, log[p].by)
        IN  /\ (BobFollowsCode /\ IsSend(log[p], "bob")) =>
                   /\ t \in {ResponseType(g), FinalType(g), MSG_ERROR}
                   /\ t = ResponseType(g) => n = 1
                   /\ t = FinalType(g) => n = 2
            /\ (AliceFollowsCode /\ IsSend(log[p], "alice")) =>
                   /\ t \in {MSG_COMMIT, MSG_REVEAL}
                   /\ t = MSG_COMMIT => n = 0
                   /\ t = MSG_REVEAL => n = 1

\* C6: on every connection the messages are written in the order COMMIT, RESPONSE,
\* REVEAL, RESULT, each at most once and none before the one it follows; Bob and
\* Alice compare the type of each message they receive with the one type of
\* their phase, and a message of another type ends handle_game / play_game with
\* None: the side reads no more and writes nothing of a later phase.
C6_MessageOrder ==
    \A i \in ConnIds :
        LET log == conns[i].log
            sends == AllSends(log)
        IN  /\ mode = "honest" =>
                   /\ IsPrefix(TypesOf(sends), RoundOrder(game))
                   /\ \A k \in 1..Len(sends) :
                          sends[k].by = (IF k % 2 = 1 THEN "alice" ELSE "bob")
            /\ SentInPhase(game, log)
            /\ \A k \in 1..Len(sends) : \A j \in 1..(k - 1) :
                   (/\ sends[k].by = sends[j].by
                    /\ FollowsCode(sends[k].by)
                    /\ sends[k].msg.type # MSG_ERROR)
                   => sends[k].msg.type # sends[j].msg.type
            /\ BobFollowsCode =>
                   /\ TypeChecked(log, "bob", BobExpects(game))
                   /\ \A k \in 1..Len(Recvs(log, "bob")) :
                          Recvs(log, "bob")[k].msg.type \notin {BobExpects(game)[k], Malformed.type}
                          => /\ bob.conn = i
                             /\ bob.result = ReturnNone
                             /\ bob.exit = <<IF k = 1 THEN "Expected COMMIT message"
                                             ELSE "Expected REVEAL message">>
                             /\ conns[i].srv = "closed"
            /\ AliceFollowsCode =>
                   /\ TypeChecked(log, "alice", AliceExpects(game))
                   /\ \A k \in 1..Len(Recvs(log, "alice")) :
                          Recvs(log, "alice")[k].msg.type # AliceExpects(game)[k]
                          => /\ alice.conn = i
                             /\ alice.result = ReturnNone
                             /\ conns[i].cli = "closed"

\* a whole round between Alice and Bob
C6_Witness ==
    /\ mode = "honest"
    /\ \E i \in ConnIds :
           /\ TypesOf(AllSends(conns[i].log)) = RoundOrder(game)
           /\ Len(Recvs(conns[i].log, "alice")) = 2

\* a client that sends something else than the REVEAL after Bob's RESPONSE
C6_WrongTypeReached ==
    /\ mode = "rogue_client"
    /\ \E i \in ConnIds :
           LET r == Recvs(conns[i].log, "bob")
           IN  Len(r) = 2 /\ r[2].msg.type = MSG_COMMIT


\* the three counters of a side, and the number of rounds they count
Tally(p) == <<p.alice_wins, p.bob_wins, p.ties>>
Counted(p) == p.alice_wins + p.bob_wins + p.ties

InRound(p) == p.pc \in {"wait_commit", "wait_reveal", "wait_response", "wait_result"}

\* one step of a side of the dice match: a tally that changes does so in the step
\* in which handle_game / play_game returns a tuple, by one in the counter of the
\* winner the tuple names; a round that returns None and a step inside a round
\* leave the tally alone
TallyStep(p, q) ==
    LET returned == InRound(p) /\ ~InRound(q)
    IN  /\ Tally(q) # Tally(p) => (returned /\ q.result.ret = "tuple")
        /\ (returned /\ q.result.ret = "tuple") =>
               /\ Counted(q) = Counted(p) + 1
               /\ q.alice_wins = p.alice_wins + (IF q.result.winner = 1 THEN 1 ELSE 0)
               /\ q.bob_wins = p.bob_wins + (IF q.result.winner = 2 THEN 1 ELSE 0)
               /\ q.ties = p.ties + (IF q.result.winner \notin {1, 2} THEN 1 ELSE 0)
        /\ (returned /\ q.result.ret # "tuple") => Tally(q) = Tally(p)
        /\ ~returned => Tally(q) = Tally(p)

\* C12: in the dice match each side adds one to exactly one of its three counters
\* for each round that completed, changes no counter for a round that failed and
\* none while a round is in progress.
C12_TallyPerRound ==
    [][game = "dice" =>
          /\ BobFollowsCode => TallyStep(bob, bob')
          /\ AliceFollowsCode => TallyStep(alice, alice')]_vars

\* a match in which each side has counted a round
C12_Witness ==
    /\ game = "dice"
    /\ mode = "honest"
    /\ Counted(bob) = 1
    /\ Counted(alice) = 1

\* a failed round of the dice match on Bob's side
C12_FailureReached ==
    /\ game = "dice"
    /\ mode = "rogue_client"
    /\ bob.result = ReturnNone
    /\ bob.exit = CheatText


\* the step in which handle_game / play_game returns None
Failed(p, q) == InRound(p) /\ ~InRound(q) /\ q.result.ret = "None"

\* C13: in the dice match a failed round does not end Bob's run_match, which goes
\* on to accept the connection of the next game (or to its end after the last
\* one), while it ends Alice's play_match: she opens no further connection and
\* plays no further round.
C13_AsymmetricFailure ==
    [][game = "dice" =>
          /\ (BobFollowsCode /\ Failed(bob, bob')) =>
                 /\ bob.game_num < NumGames =>
                        (bob'.pc = "accept" /\ bob'.game_num = bob.game_num + 1)
                 /\ bob.game_num >= NumGames => bob'.pc = "done"
          /\ (AliceFollowsCode /\ Failed(alice, alice')) => alice'.pc = "aborted"
          /\ (AliceFollowsCode /\ alice.pc = "aborted") =>
                 /\ alice' = alice
                 /\ \A i \in ConnIds : conns'[i].cli = "open" => conns[i].cli = "open"]_vars

\* Bob waits for the COMMIT of the second game after a first game that failed
C13_Witness ==
    /\ game = "dice"
    /\ mode = "rogue_client"
    /\ bob.game_num = 2
    /\ bob.pc = "wait_commit"
    /\ Counted(bob) = 0

\* Alice has given up the match after her first game and a later connection was
\* never opened
C13_AliceAborted ==
    /\ game = "dice"
    /\ mode = "rogue_server"
    /\ alice.pc = "aborted"
    /\ alice.game_num = 1
    /\ conns[2].cli = "unused"


\* The steps of the two programs are taken when they can be; a peer that ignores
\* the code is free to stop.
Fairness ==
    /\ WF_vars(BobAccept) /\ WF_vars(BobRecvCommit) /\ WF_vars(BobRecvReveal)
    /\ WF_vars(AlicePlayGame) /\ WF_vars(AliceRecvResponse) /\ WF_vars(AliceRecvResult)

SpecLive == Init /\ [][Next]_vars /\ Fairness

\* C15: in the dice match each side reaches its final report (the statement after
\* the loop of play_match / run_match, position "done") from every state in
\* which one of its rounds has failed.
C15_ReportAfterFailure ==
    /\ (game = "dice" /\ AliceFollowsCode /\ ~InRound(alice) /\ alice.result = ReturnNone)
           ~> (alice.pc = "done")
    /\ (game = "dice" /\ BobFollowsCode /\ ~InRound(bob) /\ bob.result = ReturnNone)
           ~> (bob.pc = "done")

\* the same for Alice alone
C15_AliceReports ==
    (game = "dice" /\ AliceFollowsCode /\ ~InRound(alice) /\ alice.result = ReturnNone)
        ~> (alice.pc = "done")


\* C16: a side that waits in receive_message for a peer that keeps the connection
\* open and sends nothing does not wait forever: its round ends (handle_game /
\* play_game returns).
C16_BoundedWait ==
    /\ (BobFollowsCode /\ InRound(bob)) ~> ~InRound(bob)
    /\ (AliceFollowsCode /\ InRound(alice)) ~> ~InRound(alice)


\* after each message a side received that is malformed or of another type than
\* the one of its phase (an ERROR from the peer aside), the side wrote an ERROR,
\* if its peer still had the connection open
ErrorSent(log, who, expects, peerOpen) ==
    \A p \in 1..Len(log) :
        (/\ IsRecv(log[p], who)
         /\ log[p].msg.type # expects[RecvsBefore(log, p, who) + 1]
         /\ log[p].msg.type # MSG_ERROR
         /\ peerOpen)
        => \E q \in (p + 1)..Len(log) : IsSend(log[q], who) /\ log[q].msg.type = MSG_ERROR

\* C18: the side that receives a malformed message or a message of the wrong
\* type writes an ERROR to its peer before it leaves the round: Bob in the COMMIT
\* and REVEAL phases, Alice in the RESPONSE and RESULT phases.
C18_ErrorOnDetection ==
    \A i \in ConnIds :
        /\ BobFollowsCode =>
               ErrorSent(conns[i].log, "bob", BobExpects(game), conns[i].cli = "open")
        /\ AliceFollowsCode =>
               ErrorSent(conns[i].log, "alice", AliceExpects(game), conns[i].srv = "open")

\* the same for Bob alone
C18_BobSendsError ==
    \A i \in ConnIds :
        BobFollowsCode =>
            ErrorSent(conns[i].log, "bob", BobExpects(game), conns[i].cli = "open")

\* Bob has answered a malformed second message with an ERROR
C18_BobReached ==
    /\ mode = "rogue_client"
    /\ \E i \in ConnIds :
           LET log == conns[i].log
           IN  /\ Len(Recvs(log, "bob")) = 2
               /\ Recvs(log, "bob")[2].msg = Malformed
               /\ log[Len(log)].msg.type = MSG_ERROR
               /\ IsSend(log[Len(log)], "bob")


\* the REVEALs Alice wrote on a connection
Reveals(log) == {q \in 1..Len(log) : IsSend(log[q], "alice") /\ log[q].msg.type = MSG_REVEAL}

\* C19: what Alice writes before she has received anything is a COMMIT that
\* carries the commitment (and num_dice) only, and she writes a REVEAL only when
\* the first message she received on the connection has the type of Bob's value;
\* after an ERROR, another type, or a failed receive there is no REVEAL.
C19_NoRevealBeforeResponse ==
    AliceFollowsCode =>
        \A i \in ConnIds :
            LET log == conns[i].log
            IN  /\ \A q \in 1..Len(log) :
                       (IsSend(log[q], "alice") /\ RecvsBefore(log, q, "alice") = 0)
                       => /\ log[q].msg.type = MSG_COMMIT
                          /\ DOMAIN log[q].msg.data \subseteq {"commitment", "num_dice"}
                /\ \A q \in Reveals(log) :
                       /\ RecvsBefore(log, q, "alice") = 1
                       /\ Recvs(log, "alice")[1].msg.type = ResponseType(game)

\* Alice received a message of another type that carries the fields of Bob's
\* value, and left the round without a REVEAL
C19_Witness ==
    /\ mode = "rogue_server"
    /\ alice.result = ReturnNone
    /\ \E i \in ConnIds :
           LET log == conns[i].log
           IN  /\ Len(Recvs(log, "alice")) = 1
               /\ Recvs(log, "alice")[1].msg.type = MSG_COMMIT
               /\ MissingField(ResponseFields(game), Recvs(log, "alice")[1].msg.data) = ""
               /\ Reveals(log) = {}
               /\ conns[i].cli = "closed"

\* Alice revealed to a peer that does not follow bob.py
C19_RevealReached ==
    /\ mode = "rogue_server"
    /\ \E i \in ConnIds : Reveals(conns[i].log) # {}


\* Bob's first receive on connection i was a COMMIT of commit(str(S), n) and his
\* second a complete REVEAL of another sum with the same nonce n
SumCheat(i) ==
    LET r == Recvs(conns[i].log, "bob")
    IN  /\ game = "dice"
        /\ Len(r) >= 2
        /\ r[1].msg.type = MSG_COMMIT
        /\ MissingField(<<"commitment", "num_dice">>, r[1].msg.data) = ""
        /\ r[2].msg.type = MSG_REVEAL
        /\ MissingField(RevealFields(game), r[2].msg.data) = ""
        /\ \E S \in 0..(DieMax * (MaxNumDice + 1)) :
               /\ r[1].msg.data.commitment = commit(PyStr(S), r[2].msg.data.nonce)
               /\ r[2].msg.data.alice_sum # S

\* the dice of the REVEAL Bob received on connection i add up to its alice_sum
DiceAddUp(i) == RevealValid(game, Recvs(conns[i].log, "bob")[2].msg.data)

\* what handle_game and run_match do in the step that receives the REVEAL: the
\* cheating branch is taken, its ERROR is the last message Bob writes (if the
\* client still listens), handle_game returns None and the tally stays
MismatchReported(i) ==
    /\ bob'.exit = CheatText
    /\ bob'.exit # InvalidText(game, Recvs(conns'[i].log, "bob")[2].msg.data)
    /\ bob'.result = ReturnNone
    /\ Tally(bob') = Tally(bob)
    /\ conns[i].cli = "open" =>
           LET s == Sends(conns'[i].log, "bob")
           IN  s[Len(s)].msg = ErrorMsg(CheatText)

\* C20 as stated: in the dice game, when Bob receives the REVEAL of a sum other
\* than the committed one with the nonce of the commitment, whatever the dice in
\* it, he reports the commitment mismatch and does not count the round.
C20_SumCheatAnyDice ==
    [][BobFollowsCode =>
           \A i \in ConnIds :
               (~SumCheat(i) /\ SumCheat(i)') => MismatchReported(i)]_vars

\* C20, for a REVEAL whose dice add up to the revealed sum: in the dice game,
\* when Bob receives the REVEAL of a sum other than the committed one with the
\* nonce of the commitment and dice that add up to the revealed sum, he reports
\* the commitment mismatch and does not count the round.
C20_SumCheatDetected ==
    [][BobFollowsCode =>
           \A i \in ConnIds :
               (~SumCheat(i) /\ SumCheat(i)' /\ DiceAddUp(i)') => MismatchReported(i)]_vars

\* Bob received such a REVEAL and took the cheating branch
C20_Witness ==
    /\ mode = "rogue_client"
    /\ \E i \in ConnIds : SumCheat(i) /\ DiceAddUp(i) /\ bob.conn = i
    /\ bob.exit = CheatText
    /\ Counted(bob) = 0

\* Bob received the REVEAL of another sum with dice that do not add up to it
C20_InvalidSumReached ==
    /\ mode = "rogue_client"
    /\ \E i \in ConnIds : SumCheat(i) /\ ~DiceAddUp(i) /\ bob.conn = i
    /\ bob.exit # CheatText


\* the texts of the exceptions a closed or reset connection raises
ClosureTexts == {<<"Connection closed">>, <<"Broken pipe">>}

\* this step of handle_game ran into a closed connection: receive_message or a
\* send_message of the protocol raised
BobSawClosure == InRound(bob) /\ bob'.exit \in ClosureTexts

\* this step of play_game ran into a closed connection: receive_message found
\* the connection closed, or the send of REVEAL raised after a good response
AliceSawClosure ==
    LET c == conns[alice.conn]
    IN  /\ alice.pc \in {"wait_response", "wait_result"}
        /\ alice' # alice
        /\ c.srv = "closed"
        /\ \/ c.b2a = <<>>
           \/ /\ alice.pc = "wait_response"
              /\ RecvOutcome(c.b2a).kind = "msg"
              /\ IsResponse(game, Head(c.b2a))
              /\ MissingField(ResponseFields(game), Head(c.b2a).data) = ""
              /\ alice'.pc # "wait_result"

\* what side who wrote on connection i in this step
NewSends(i, who) ==
    SubSeq(Sends(conns'[i].log, who), Len(Sends(conns[i].log, who)) + 1,
           Len(Sends(conns'[i].log, who)))

\* C21: the step of a side that runs into a closed or reset connection ends the
\* round on that side: it returns None, is in no later phase, counts nothing,
\* and writes nothing in that step but at most one ERROR.
C21_ClosedConnectionFails ==
    [][/\ (BobFollowsCode /\ BobSawClosure) =>
              /\ bob'.result = ReturnNone
              /\ ~InRound(bob')
              /\ Tally(bob') = Tally(bob)
              /\ conns'[bob.conn].srv = "closed"
              /\ Len(NewSends(bob.conn, "bob")) <= 1
              /\ \A k \in 1..Len(NewSends(bob.conn, "bob")) :
                     NewSends(bob.conn, "bob")[k].msg.type = MSG_ERROR
       /\ (AliceFollowsCode /\ AliceSawClosure) =>
              /\ alice'.result = ReturnNone
              /\ ~InRound(alice')
              /\ Tally(alice') = Tally(alice)
              /\ conns'[alice.conn].cli = "closed"
              /\ NewSends(alice.conn, "alice") = <<>>]_vars

\* the client went away after Bob's value: handle_game left phase 3 through the
\* except branch
C21_Witness ==
    /\ mode = "rogue_client"
    /\ bob.exit = <<"Connection closed">>
    /\ bob.result = ReturnNone
    /\ ~InRound(bob)
    /\ LET log == conns[bob.conn].log
       IN  /\ Len(Recvs(log, "bob")) = 1
           /\ Recvs(log, "bob")[1].msg.type = MSG_COMMIT
           /\ Len(Sends(log, "bob")) >= 1
           /\ Sends(log, "bob")[1].msg.type = ResponseType(game)

\* the server went away while Alice waited for the result
C21_AliceReached ==
    /\ mode = "rogue_server"
    /\ alice.result = ReturnNone
    /\ \E i \in ConnIds :
           /\ conns[i].cli = "closed"
           /\ conns[i].srv = "closed"
           /\ Reveals(conns[i].log) # {}
           /\ Len(Recvs(conns[i].log, "alice")) = 1

\* a send of Bob's raised on a connection the client had left
C21_BrokenPipeReached == BobFollowsCode /\ bob.exit = <<"Broken pipe">>


\* C22: in rock-paper-scissors, once a play_game of Alice ended in an error, run
\* starts no further round.
C22_RpsFailureAborts ==
    [][(game = "rps" /\ AliceFollowsCode /\ ~InRound(alice) /\ alice.result = ReturnNone)
       => ~InRound(alice')]_vars

\* run has started the second game after a first game that failed
C22_NextRoundStarted ==
    /\ game = "rps"
    /\ mode = "rogue_server"
    /\ alice.game_num = 2
    /\ alice.pc = "wait_response"
    /\ conns[1].cli = "closed"


C25_NoHonestFailure ==
    mode = "honest" => (bob.result # ReturnNone /\ alice.result # ReturnNone)


\* the messages of type t among Bob's sends on a log
BobSent(log, t) == {k \in 1..Len(log) : IsSend(log[k], "bob") /\ log[k].msg.type = t}

\* Bob's end of a connection is open only while it is the connection of the
\* running handle_game; a connection he has not accepted has nothing of his on
\* it; a connection carries the messages of one round
OneRoundAtATime ==
    \A i \in ConnIds :
        /\ conns[i].srv = "open" => (InRound(bob) /\ bob.conn = i)
        /\ conns[i].srv \in {"unused", "pending"} =>
               (Recvs(conns[i].log, "bob") = <<>> /\ Sends(conns[i].log, "bob") = <<>>)
        /\ Len(Recvs(conns[i].log, "bob")) <= 2
        /\ Cardinality(BobSent(conns[i].log, ResponseType(game))) <= 1
        /\ Cardinality(BobSent(conns[i].log, FinalType(game))) <= 1

\* accept happens outside a round, with no other connection open at Bob's end,
\* and starts the round of the accepted connection; the return of handle_game
\* closes the connection of the round
AcceptAfterReturn ==
    /\ \A i \in ConnIds :
           (conns[i].srv = "pending" /\ conns'[i].srv = "open") =>
               /\ ~InRound(bob)
               /\ \A j \in ConnIds : conns[j].srv # "open"
               /\ bob'.pc = "wait_commit" /\ bob'.conn = i
    /\ (InRound(bob) /\ ~InRound(bob')) => conns'[bob.conn].srv = "closed"

\* C26: Bob runs one handle_game at a time, each on its own connection: he
\* accepts a connection only after the previous handle_game returned and its
\* connection was closed, no connection carries two rounds, and a client that
\* connects during a round is not served before the round ended.
C26_SerialRounds ==
    [][BobFollowsCode => (OneRoundAtATime /\ OneRoundAtATime' /\ AcceptAfterReturn)]_vars

\* a second client has connected and written its COMMIT while the round of the
\* first is running
C26_Witness ==
    /\ mode = "rogue_client"
    /\ InRound(bob) /\ bob.conn = 1
    /\ conns[1].srv = "open"
    /\ conns[2].srv = "pending"
    /\ conns[2].a2b # <<>>
    /\ Sends(conns[2].log, "bob") = <<>>

\* the second client is served after the first round ended
C26_SecondServed ==
    /\ mode = "rogue_client"
    /\ bob.conn = 2
    /\ Len(Recvs(conns[2].log, "bob")) >= 1
    /\ conns[1].srv = "closed"


C27_NextAccepted ==
    /\ mode = "rogue_client"
    /\ bob.pc = "wait_commit"
    /\ bob.conn = 2
    /\ conns[1].srv = "closed"
    /\ conns[1].cli = "closed"
    /\ game = "dice" => (bob.game_num = 2 /\ Counted(bob) = 0)

AboutToPlay == alice.pc = "start" /\ conns[alice.game_num].cli = "unused"

\* the value, nonce and commitment of the round play_game has started are the
\* ones of its COMMIT, and the round before left nothing else in them
OwnCommit(a, c) ==
    LET s == Sends(c.log, "alice")
    IN  /\ Len(s) >= 1
        /\ s[1].msg.type = MSG_COMMIT
        /\ s[1].msg.data.commitment = a.locals.alice_commitment
        /\ a.locals.alice_nonce \in Nonces
        /\ a.locals.alice_commitment =
               commit(AliceValue(game, IF game = "rps" THEN a.locals.alice_move
                                       ELSE a.locals.alice_dice),
                      a.locals.alice_nonce)
        /\ \A q \in Reveals(c.log) :
               /\ c.log[q].msg.data.nonce = a.locals.alice_nonce
               /\ commit(RevealValue(game, c.log[q].msg.data), c.log[q].msg.data.nonce)
                      = s[1].msg.data.commitment

\* C28: every play_game makes its own nonce, value and commitment: whatever the
\* round before left behind, the round about to start can get every nonce
\* generate_nonce may return, and during a round the commitment sent, the nonce
\* revealed and Alice's locals are the ones made in that round.
C28_FreshNonce ==
    AliceFollowsCode =>
        /\ AboutToPlay =>
               \A n \in Nonces : ENABLED (AlicePlayGame /\ alice'.locals.alice_nonce = n)
        /\ alice.pc \in {"wait_response", "wait_result"} => OwnCommit(alice, conns[alice.conn])

\* the second round is about to start, the nonce of the first is still in the
\* locals of the play_game that returned, and the second can get another one
C28_Witness ==
    /\ AliceFollowsCode
    /\ AboutToPlay
    /\ alice.game_num = 2
    /\ alice.locals.alice_nonce = <<"a", "1">>
    /\ ENABLED (AlicePlayGame /\ alice'.locals.alice_nonce = <<"0", "f">>)

\* the second round runs with a nonce of its own
C28_SecondRound ==
    /\ mode = "honest"
    /\ alice.game_num = 2
    /\ alice.pc = "wait_result"
    /\ OwnCommit(alice, conns[2])


\* what side who wrote on a log: every type at most once, nothing after its final
\* message or its ERROR, and after a message that failed the test of its phase
\* nothing but an ERROR
NoRetry(g, log, who, expects) ==
    LET s == Sends(log, who)
    IN  /\ \A k \in 1..Len(s) : \A j \in 1..Len(s) :
               k # j => s[k].msg.type # s[j].msg.type
        /\ \A k \in 1..Len(s) :
               s[k].msg.type \in {FinalType(g), MSG_ERROR} => k = Len(s)
        /\ \A p \in 1..Len(log) :
               (IsRecv(log[p], who)
                /\ log[p].msg.type # expects[RecvsBefore(log, p, who) + 1])
               => \A q \in (p + 1)..Len(log) :
                      IsSend(log[q], who) => log[q].msg.type = MSG_ERROR

\* C29: on a connection each side writes each of its message types at most
\* once, writes nothing after its final RESULT / MATCH_RESULT or after an ERROR,
\* and after a failure it detected nothing but the one ERROR: Bob writes no ERROR
\* after the final message and no second ERROR.
C29_NoRetry ==
    \A i \in ConnIds :
        /\ BobFollowsCode => NoRetry(game, conns[i].log, "bob", BobExpects(game))
        /\ AliceFollowsCode => NoRetry(game, conns[i].log, "alice", AliceExpects(game))

\* the part that holds: each type but ERROR at most once, and nothing after the
\* final message
C29_FinalIsLast ==
    \A i \in ConnIds : \A who \in {"alice", "bob"} :
        FollowsCode(who) =>
            LET s == Sends(conns[i].log, who)
            IN  /\ \A k \in 1..Len(s) : \A j \in 1..Len(s) :
                       (k # j /\ s[k].msg.type # MSG_ERROR) => s[k].msg.type # s[j].msg.type
                /\ \A k \in 1..Len(s) : s[k].msg.type = FinalType(game) => k = Len(s)

\* Bob wrote his value and, after a REVEAL that failed, one ERROR to a client
\* that still listens
C29_OneError ==
    /\ mode = "rogue_client"
    /\ ~InRound(bob)
    /\ conns[bob.conn].cli = "open"
    /\ TypesOf(Sends(conns[bob.conn].log, "bob")) = <<ResponseType(game), MSG_ERROR>>
    /\ Len(conns[bob.conn].b2a) = 2

\* Alice stopped after a final message of the wrong type
C29_AliceStopped ==
    /\ mode = "rogue_server"
    /\ \E i \in ConnIds :
           /\ TypesOf(Sends(conns[i].log, "alice")) = <<MSG_COMMIT, MSG_REVEAL>>
           /\ Len(Recvs(conns[i].log, "alice")) = 2
           /\ Recvs(conns[i].log, "alice")[2].msg.type = MSG_COMMIT
           /\ conns[i].cli = "closed"


\* Alice and Bob both wait in receive_message on the connection of the round and
\* nothing is on its way to either
BothBlocked ==
    /\ InRound(alice) /\ InRound(bob)
    /\ bob.conn = alice.conn
    /\ conns[alice.conn].a2b = <<>>
    /\ conns[alice.conn].b2a = <<>>

\* C30: between Alice and Bob running the code, over a connection that stays
\* open, the two never wait for each other at the same time, and every round
\* that was started ends with Bob having sent the final message and returned
\* its outcome and with Alice having received it.
C30_RoundsComplete ==
    /\ [](mode = "honest" => ~BothBlocked)
    /\ \A k \in ConnIds :
           (mode = "honest" /\ InRound(alice) /\ alice.conn = k)
               ~> (/\ ~InRound(alice) /\ alice.result.ok
                   /\ ~InRound(bob) /\ conns[k].srv = "closed" /\ conns[k].cli = "closed")
    /\ \A k \in ConnIds :
           (mode = "honest" /\ InRound(bob) /\ bob.conn = k)
               ~> (~InRound(bob) /\ bob.result.ok /\ bob.exit = <<"ok">>)

\* all the rounds of a match were played to the end
C30_Witness ==
    /\ mode = "honest"
    /\ alice.pc = "done"
    /\ alice.result.ok
    /\ ~InRound(bob)
    /\ conns[NumGames].cli = "closed" /\ conns[NumGames].srv = "closed"
    /\ game = "dice" => (Counted(alice) = NumGames /\ Counted(bob) = NumGames)


\* Bob counted the round he just served: handle_game returned its tuple
BobCountedRound == game = "dice" /\ ~InRound(bob) /\ bob.result.ret = "tuple"

\* C31: in every dice round that Bob counts in his tally, the dice list Alice
\* revealed and Bob's dice list have the same length, the num_dice announced in
\* COMMIT, whatever the Committer does.
C31_FairDiceCount ==
    (BobFollowsCode /\ BobCountedRound) =>
        /\ Len(bob.locals.alice_dice) = bob.locals.num_dice
        /\ Len(bob.locals.bob_dice) = bob.locals.num_dice

\* the part of C31 about Bob's own roll: in a counted round Bob rolled the
\* number of dice named in COMMIT
C31_BobRollsAnnounced ==
    (BobFollowsCode /\ BobCountedRound) =>
        Len(bob.locals.bob_dice) = bob.locals.num_dice

\* with an Alice who follows play_game the two lists have the same length
C31_HonestFairCount ==
    (mode = "honest" /\ BobCountedRound) =>
        Len(bob.locals.alice_dice) = Len(bob.locals.bob_dice)

\* Bob counted a round in which he rolled one die against two dice of the client
C31_MoreDiceCounted ==
    /\ mode = "rogue_client"
    /\ BobCountedRound
    /\ Counted(bob) > 0
    /\ bob.locals.num_dice = 1
    /\ Len(bob.locals.bob_dice) = 1
    /\ Len(bob.locals.alice_dice) = 2


\* Bob has returned from the round whose final message Alice has yet to read
VerdictInFlight == alice.pc = "wait_result" /\ conns[alice.conn].b2a # <<>>

\* the tally Alice has once she has read the message that waits for her
AliceTallyAhead ==
    IF VerdictInFlight
    THEN Tally(AliceTally(game, alice,
                          PlayResult(game, conns[alice.conn], alice.locals).result))
    ELSE Tally(alice)

\* C32: in the dice match between an Alice and a Bob that follow the code, the
\* two tallies are equal counter by counter after each round: Bob's tally is
\* Alice's, plus the round whose verdict Alice has not read yet, and every
\* tally Alice reaches is the tally Bob has.
C32_TallyAgreement ==
    [][(mode = "honest" /\ game = "dice") =>
           /\ Tally(bob) = AliceTallyAhead
           /\ Tally(bob') = AliceTallyAhead'
           /\ Tally(alice') # Tally(alice) => Tally(alice') = Tally(bob')]_vars

\* a whole match, with rounds won by each side, counted alike on both sides
C32_Witness ==
    /\ mode = "honest" /\ game = "dice"
    /\ alice.pc = "done"
    /\ ~InRound(bob)
    /\ Counted(alice) = NumGames
    /\ alice.alice_wins > 0 /\ alice.bob_wins > 0
    /\ Tally(bob) = Tally(alice)

\* Bob has counted a round that Alice has not counted yet
C32_BobAhead ==
    /\ mode = "honest" /\ game = "dice"
    /\ VerdictInFlight
    /\ Counted(bob) = Counted(alice) + 1


\* Alice's tally after a round counted with the given winner
AliceCounting(winner) ==
    Tally(AliceTally(game, alice,
                     ReturnTuple(alice.locals.alice_sum, alice.locals.bob_sum, winner)))

\* this step of play_match counted a round
AliceCounts == game = "dice" /\ Tally(alice') # Tally(alice)

\* C33: the winner that the Alice of the dice game adds to her tally for a round
\* is determine_winner(her own sum, the bob_sum she received in RESULT), whatever
\* winner the final MATCH_RESULT carries.
C33_OwnVerdict ==
    [][(AliceFollowsCode /\ AliceCounts) =>
           Tally(alice') = AliceCounting(dice_determine_winner(alice.locals.alice_sum,
                                                               alice.locals.bob_sum))]_vars

\* what play_match counts is the winner field of the MATCH_RESULT it read
C33_CarriedVerdict ==
    [][(AliceFollowsCode /\ AliceCounts) =>
           /\ alice.pc = "wait_result"
           /\ Tally(alice') = AliceCounting(Head(conns[alice.conn].b2a).data.winner)]_vars

\* with a Bob who follows handle_game the two agree
C33_HonestVerdict ==
    [][(mode = "honest" /\ AliceCounts) =>
           Tally(alice') = AliceCounting(dice_determine_winner(alice.locals.alice_sum,
                                                               alice.locals.bob_sum))]_vars

\* Alice counted a round for Bob although her sum was the larger one
C33_WrongWinnerCounted ==
    /\ mode = "rogue_server" /\ game = "dice"
    /\ alice.result.ret = "tuple"
    /\ alice.result.alice_sum > alice.result.bob_sum
    /\ alice.result.winner = 2
    /\ alice.bob_wins > 0

\* Alice counted a tie for a winner number outside 0, 1, 2
C33_UnknownWinnerCounted ==
    /\ mode = "rogue_server" /\ game = "dice"
    /\ alice.result.ret = "tuple"
    /\ alice.result.winner \notin {0, 1, 2}
    /\ alice.ties > 0


\* this step of handle_game completed a round: Bob wrote the MATCH_RESULT
BobCompletes ==
    /\ InRound(bob)
    /\ \E k \in DOMAIN NewSends(bob.conn, "bob") :
           NewSends(bob.conn, "bob")[k].msg.type = MSG_MATCH_RESULT

\* this step of play_game completed a round: Alice read a MATCH_RESULT with its
\* winner and its message
AliceCompletes ==
    /\ alice.pc = "wait_result"
    /\ alice' # alice
    /\ LET r == RecvOutcome(conns[alice.conn].b2a)
       IN  /\ r.kind = "msg"
           /\ r.msg.type = MSG_MATCH_RESULT
           /\ MissingField(FinalFields, r.msg.data) = ""

\* the tally of a side counts the rounds it completed (p is the side before the
\* step, q after it): it grows by one in a step that completes a round and in
\* no other, counts no round that has not ended, and stays within num_games
CountsCompleted(p, q, completes) ==
    /\ Counted(q) = Counted(p) + (IF completes THEN 1 ELSE 0)
    /\ Counted(p) <= (IF p.pc = "done" THEN p.game_num ELSE p.game_num - 1)
    /\ Counted(q) <= NumGames

\* the figures each side prints once its loop is over
BobFinalReport(b) == BobReport(NumGames, b.alice_wins, b.bob_wins, b.ties)
AliceFinalReport(a) == AliceReport(NumGames, a.alice_wins, a.bob_wins, a.ties)

\* C34: at every point of the dice match, on each side the three counters add up
\* to the number of rounds completed so far and to at most num_games, and the
\* 'Total games played' figure of the final report is that sum.
C34_TallyAccounting ==
    [][game = "dice" =>
           /\ BobFollowsCode =>
                  /\ CountsCompleted(bob, bob', BobCompletes)
                  /\ bob'.pc = "done" => BobFinalReport(bob').total = Counted(bob')
           /\ AliceFollowsCode =>
                  /\ CountsCompleted(alice, alice', AliceCompletes)
                  /\ alice'.pc = "done" => AliceFinalReport(alice').total = Counted(alice')]_vars

\* the part of C34 about the counters, on both sides
C34_CountsCompleted ==
    [][game = "dice" =>
           /\ BobFollowsCode => CountsCompleted(bob, bob', BobCompletes)
           /\ AliceFollowsCode => CountsCompleted(alice, alice', AliceCompletes)]_vars

\* the part of C34 about the report, on Alice's side
C34_AliceReport ==
    (game = "dice" /\ AliceFollowsCode /\ alice.pc = "done") =>
        AliceFinalReport(alice).total = Counted(alice)

\* Bob reports num_games games played after a match in which a round failed
C34_ReportAfterFailure ==
    /\ game = "dice" /\ mode = "rogue_client"
    /\ bob.pc = "done"
    /\ Counted(bob) < BobFinalReport(bob).total

\* both sides completed rounds and counted them
C34_RoundsCounted ==
    /\ game = "dice" /\ mode = "honest"
    /\ alice.pc = "done" /\ bob.pc = "done"
    /\ Counted(alice) = NumGames /\ Counted(bob) = NumGames


\* handle_game got as far as determine_winner in this round: the commitment was
\* verified (the call follows at once, before the send of RESULT)
WinnerDetermined == game = "rps" /\ bob.locals.verified

\* the second message Bob read on connection i is a REVEAL of a move outside
\* rock, paper, scissors
InvalidMoveRevealed(i) ==
    LET r == Recvs(conns[i].log, "bob")
    IN  /\ game = "rps"
        /\ Len(r) >= 2
        /\ r[2].msg.type = MSG_REVEAL
        /\ "move" \in DOMAIN r[2].msg.data
        /\ r[2].msg.data.move \notin VALID_MOVES

\* C35: in rock-paper-scissors Bob calls determine_winner only with two moves
\* out of rock, paper, scissors, whatever the REVEAL holds; a revealed move
\* outside that set never gets a RESULT (determine_winner itself answers 2 for
\* every unequal pair that is not in its table).
C35_ValidWinnerInputs ==
    BobFollowsCode =>
        /\ WinnerDetermined =>
               /\ bob.locals.alice_move \in VALID_MOVES
               /\ bob.locals.bob_move \in VALID_MOVES
        /\ \A i \in ConnIds :
               InvalidMoveRevealed(i) => BobSent(conns[i].log, MSG_RESULT) = {}
        /\ \A m1, m2 \in VALID_MOVES \cup {LIZARD} :
               (m1 # m2 /\ <<m1, m2>> \notin winning_combinations) =>
                   determine_winner(m1, m2) = 2

\* Bob read the REVEAL of the move he had the commitment to, a move outside the
\* set, and turned it down as invalid
C35_Witness ==
    /\ mode = "rogue_client"
    /\ \E i \in ConnIds :
           /\ InvalidMoveRevealed(i)
           /\ bob.conn = i
           /\ LET r == Recvs(conns[i].log, "bob")
              IN  /\ r[1].msg.type = MSG_COMMIT
                  /\ "commitment" \in DOMAIN r[1].msg.data
                  /\ r[1].msg.data.commitment
                         = commit(r[2].msg.data.move, r[2].msg.data.nonce)
    /\ bob.exit = InvalidText(game, [move |-> LIZARD])
    /\ ~bob.locals.verified

\* Bob determined the winner of a round a client outside the code played
C35_WinnerReached ==
    /\ mode = "rogue_client"
    /\ WinnerDetermined
    /\ bob.exit = <<"ok">>


(* ------------------------------------------------------------------ *)

\* longest string of free characters handed to commit and verify
MaxStrLen == 2

\* an ordinary character and the character of the separator
FreeChars == {"a", "|"}

RECURSIVE StringsUpTo(_, _)
StringsUpTo(chars, n) ==
    IF n = 0 THEN {<<>>}
    ELSE LET shorter == StringsUpTo(chars, n - 1)
         IN  shorter \cup {t \o <<ch>> : t \in shorter, ch \in chars}

\* the arguments tried: every short string of free characters, the moves, sums
\* as Alice formats them (one a prefix of the other), a nonce
CommitStrings ==
    StringsUpTo(FreeChars, MaxStrLen) \cup VALID_MOVES
        \cup {PyStr(7), PyStr(1), PyStr(11)} \cup {RogueNonce}

\* the idle protocol of the specifications that call the pure functions
Idle ==
    /\ game = "rps"
    /\ mode = "honest"
    /\ conns = [i \in ConnIds |-> UnusedConn]
    /\ alice = AliceInit(1)
    /\ bob = BobInit
    /\ budget = 0

CommitInit ==
    /\ Idle
    /\ \E value \in CommitStrings, nonce \in CommitStrings :
        lab = [pc |-> "commit", value |-> value, nonce |-> nonce]

\* commitment = CommitmentScheme.commit(value, nonce)
CommitCall ==
    /\ lab.pc = "commit"
    /\ lab' = [pc |-> "verify", value |-> lab.value, nonce |-> lab.nonce,
               commitment |-> commit(lab.value, lab.nonce)]
    /\ UNCHANGED <<game, mode, conns, alice, bob, budget>>

\* is_valid = CommitmentScheme.verify(commitment, value2, nonce2)
VerifyCall ==
    /\ lab.pc = "verify"
    /\ \E value2 \in CommitStrings, nonce2 \in CommitStrings :
        lab' = [pc |-> "verified", value |-> lab.value, nonce |-> lab.nonce,
                commitment |-> lab.commitment, value2 |-> value2, nonce2 |-> nonce2,
                is_valid |-> verify(lab.commitment, value2, nonce2)]
    /\ UNCHANGED <<game, mode, conns, alice, bob, budget>>

CommitNext == CommitCall \/ VerifyCall

SpecCommit == CommitInit /\ [][CommitNext]_vars

\* C3: verify(commit(value, nonce), value, nonce) is true for every value and
\* every nonce: a verify call with the arguments of the commit call that made the
\* commitment returns True.
C3_VerifyOwnCommitment ==
    (lab.pc = "verified" /\ lab.value2 = lab.value /\ lab.nonce2 = lab.nonce)
        => lab.is_valid = TRUE

C3_Witness ==
    /\ lab.pc = "verified"
    /\ lab.value = ROCK /\ lab.value2 = ROCK
    /\ lab.nonce = RogueNonce /\ lab.nonce2 = RogueNonce
    /\ lab.is_valid

\* a value Bob accepts in a REVEAL: a move of VALID_MOVES, or str(alice_sum)
LegalValue(value) ==
    \/ is_valid_move(value)
    \/ \E k \in 0..(DieMax * (MaxNumDice + 1)) : value = PyStr(k)

\* C23: for legal values and arbitrary nonces the hashed string
\* value + "||" + nonce determines (value, nonce): a pair of a legal value and a
\* nonce other than the committed pair has another hash input, and verify of it
\* returns False.
C23_LegalValuesUnambiguous ==
    (/\ lab.pc = "verified"
     /\ LegalValue(lab.value)
     /\ LegalValue(lab.value2)
     /\ <<lab.value, lab.nonce>> # <<lab.value2, lab.nonce2>>)
    => /\ lab.commitment[2] # commit(lab.value2, lab.nonce2)[2]
       /\ lab.is_valid = FALSE

\* two legal values, one a prefix of the other, with nonces that make up for it
C23_Witness ==
    /\ lab.pc = "verified"
    /\ lab.value = PyStr(1) /\ lab.nonce = PyStr(11)
    /\ lab.value2 = PyStr(11) /\ lab.nonce2 = PyStr(1)
    /\ ~lab.is_valid

\* a legal value with a nonce that holds the separator
C23_SeparatorInNonce ==
    /\ lab.pc = "verified"
    /\ lab.value = ROCK /\ lab.nonce = <<"|", "|">>
    /\ lab.value2 = ROCK /\ lab.nonce2 = <<"|">>
    /\ ~lab.is_valid

\* C4: binding for all strings: a verify call whose value or nonce differs from
\* the one committed to returns False.
C4_Binding ==
    (lab.pc = "verified" /\ (lab.value2 # lab.value \/ lab.nonce2 # lab.nonce))
        => lab.is_valid = FALSE

(* ------------------------------------------------------------------ *)
(* The message codec: json.dumps, the newline frame, recv(1), json.loads *)
(* ------------------------------------------------------------------ *)

\* A Python str is the sequence of its code points and the bytes on the wire are
\* numbers too; the printable ASCII characters, code points 32 to 126 (the
\* grave accent, 96, is in no literal of the source and left out):
AsciiPrintable ==
    <<" ", "!", "\"", "#", "$", "%", "&", "'", "(", ")", "*", "+", ",", "-", ".", "/",
      "0", "1", "2", "3", "4", "5", "6", "7", "8", "9", ":", ";", "<", "=", ">", "?",
      "@", "A", "B", "C", "D", "E", "F", "G", "H", "I", "J", "K", "L", "M", "N", "O",
      "P", "Q", "R", "S", "T", "U", "V", "W", "X", "Y", "Z", "[", "\\", "]", "^", "_",
      "", "a", "b", "c", "d", "e", "f", "g", "h", "i", "j", "k", "l", "m", "n", "o",
      "p", "q", "r", "s", "t", "u", "v", "w", "x", "y", "z", "{", "|", "}", "~">>

ord(ch) == 31 + (CHOOSE k \in 1..Len(AsciiPrintable) : AsciiPrintable[k] = ch)

\* an ASCII literal of the source as code points
Text(s) == [k \in 1..Len(s) |-> ord(s[k])]

\* the JSON values the programs exchange: str, int, list and dict (a dict is the
\* sequence of its items in insertion order)
JStr(s) == [t |-> "str", v |-> s]
JInt(n) == [t |-> "int", v |-> n]
JList(items) == [t |-> "list", v |-> items]
JDict(items) == [t |-> "dict", v |-> items]

\* '%04x' % n
HexDigit(d) == ord(<<"0", "1", "2", "3", "4", "5", "6", "7",
                     "8", "9", "a", "b", "c", "d", "e", "f">>[d + 1])
Hex4(n) == <<HexDigit((n \div 4096) % 16), HexDigit((n \div 256) % 16),
             HexDigit((n \div 16) % 16), HexDigit(n % 16)>>
UEscape(n) == Text(<<"\\", "u">>) \o Hex4(n)

\* an encoder that writes every character as it is
escape_raw(c) == <<c>>

\* json.dumps with ensure_ascii: backslash, quote and the control characters get
\* their two-character escape, every other character outside ' '..'~' becomes
\* \uXXXX (a surrogate pair above U+FFFF)
escape(c) ==
    IF c = ord("\\") THEN Text(<<"\\", "\\">>)
    ELSE IF c = ord("\"") THEN Text(<<"\\", "\"">>)
    ELSE IF c = 8 THEN Text(<<"\\", "b">>)
    ELSE IF c = 12 THEN Text(<<"\\", "f">>)
    ELSE IF c = 10 THEN Text(<<"\\", "n">>)
    ELSE IF c = 13 THEN Text(<<"\\", "r">>)
    ELSE IF c = 9 THEN Text(<<"\\", "t">>)
    ELSE IF c \in 32..126 THEN <<c>>
    ELSE IF c < 65536 THEN UEscape(c)
    ELSE UEscape(55296 + (((c - 65536) \div 1024) % 1024))
             \o UEscape(56320 + ((c - 65536) % 1024))

RECURSIVE EscapeAll(_)
EscapeAll(s) == IF s = <<>> THEN <<>> ELSE escape(Head(s)) \o EscapeAll(Tail(s))

encode_string(s) == Text(<<"\"">>) \o EscapeAll(s) \o Text(<<"\"">>)

\* json.dumps(value) with the default separators ', ' and ': '
RECURSIVE dumps(_), DumpList(_), DumpItems(_)
dumps(value) ==
    IF value.t = "str" THEN encode_string(value.v)
    ELSE IF value.t = "int" THEN Text(PyStr(value.v))
    ELSE IF value.t = "list" THEN Text(<<"[">>) \o DumpList(value.v) \o Text(<<"]">>)
    ELSE Text(<<"{">>) \o DumpItems(value.v) \o Text(<<"}">>)

DumpList(items) ==
    IF items = <<>> THEN <<>>
    ELSE dumps(Head(items))
         \o (IF Len(items) > 1 THEN Text(<<",", " ">>) ELSE <<>>) \o DumpList(Tail(items))

DumpItems(items) ==
    IF items = <<>> THEN <<>>
    ELSE encode_string(Head(items)[1]) \o Text(<<":", " ">>) \o dumps(Head(items)[2])
         \o (IF Len(items) > 1 THEN Text(<<",", " ">>) ELSE <<>>) \o DumpItems(Tail(items))

\* ProtocolMessage.create: json.dumps({"type": msg_type, "data": kwargs})
Message(msg_type, kwargs) ==
    JDict(<<<<Text(<<"t", "y", "p", "e">>), JStr(msg_type)>>,
            <<Text(<<"d", "a", "t", "a">>), JDict(kwargs)>>>>)

create(msg_type, kwargs) == dumps(Message(msg_type, kwargs))

\* send_message: message.encode('utf-8') + b'\n'; the text is ASCII, one byte
\* per character
Frame(msg_type, kwargs) == create(msg_type, kwargs) \o <<10>>

\* what a scanner of the decoder returns: the value and the text after it, or
\* the error it raises
Fail == [ok |-> FALSE, v |-> 0, rest |-> <<>>]
Ok(v, rest) == [ok |-> TRUE, v |-> v, rest |-> rest]

\* the whitespace json skips: ' ', \t, \n, \r
RECURSIVE SkipWs(_)
SkipWs(b) == IF b # <<>> /\ Head(b) \in {32, 9, 10, 13} THEN SkipWs(Tail(b)) ELSE b

HexValue(c) == IF c \in 48..57 THEN c - 48
               ELSE IF c \in 97..102 THEN c - 87
               ELSE IF c \in 65..70 THEN c - 55
               ELSE 0 - 1

\* the four hex digits after \u
DecodeU(b) ==
    IF Len(b) >= 4 /\ \A k \in 1..4 : HexValue(b[k]) >= 0
    THEN Ok(4096 * HexValue(b[1]) + 256 * HexValue(b[2]) + 16 * HexValue(b[3])
                + HexValue(b[4]),
            SubSeq(b, 5, Len(b)))
    ELSE Fail

\* the character of a two-character escape, or -1
Unescape(c) ==
    IF c = ord("\"") \/ c = ord("\\") \/ c = ord("/") THEN c
    ELSE IF c = ord("b") THEN 8
    ELSE IF c = ord("f") THEN 12
    ELSE IF c = ord("n") THEN 10
    ELSE IF c = ord("r") THEN 13
    ELSE IF c = ord("t") THEN 9
    ELSE 0 - 1

\* the string scanner, after the opening quote: literal characters, escapes,
\* \uXXXX and surrogate pairs; a raw control character is an error
RECURSIVE scanstring(_, _)
scanstring(b, acc) ==
    IF b = <<>> THEN Fail
    ELSE IF Head(b) = ord("\"") THEN Ok(acc, Tail(b))
    ELSE IF Head(b) < 32 THEN Fail
    ELSE IF Head(b) # ord("\\") THEN scanstring(Tail(b), Append(acc, Head(b)))
    ELSE IF Len(b) < 2 THEN Fail
    ELSE IF b[2] # ord("u")
    THEN IF Unescape(b[2]) < 0 THEN Fail
         ELSE scanstring(SubSeq(b, 3, Len(b)), Append(acc, Unescape(b[2])))
    ELSE LET u == DecodeU(SubSeq(b, 3, Len(b)))
         IN  IF ~u.ok THEN Fail
             ELSE IF /\ u.v \in 55296..56319
                     /\ Len(u.rest) >= 2
                     /\ u.rest[1] = ord("\\")
                     /\ u.rest[2] = ord("u")
             THEN LET u2 == DecodeU(SubSeq(u.rest, 3, Len(u.rest)))
                  IN  IF ~u2.ok THEN Fail
                      ELSE IF u2.v \in 56320..57343
                      THEN scanstring(u2.rest,
                                      Append(acc, 65536 + 1024 * (u.v - 55296)
                                                        + (u2.v - 56320)))
                      ELSE scanstring(u.rest, Append(acc, u.v))
             ELSE scanstring(u.rest, Append(acc, u.v))

\* the digits of an integer: 0, or a non-zero digit and the digits after it
RECURSIVE ScanDigits(_, _)
ScanDigits(b, n) ==
    IF b # <<>> /\ Head(b) \in 48..57 THEN ScanDigits(Tail(b), 10 * n + (Head(b) - 48))
    ELSE Ok(n, b)

\* the number scanner (the programs send no float)
ScanNumber(b) ==
    LET neg == b # <<>> /\ Head(b) = ord("-")
        d == IF neg THEN Tail(b) ELSE b
    IN  IF d = <<>> \/ Head(d) \notin 48..57 THEN Fail
        ELSE LET r == IF Head(d) = 48 THEN Ok(0, Tail(d)) ELSE ScanDigits(d, 0)
             IN  Ok(JInt(IF neg THEN 0 - r.v ELSE r.v), r.rest)

\* d[key] = value on the items of a dict
RECURSIVE SetItem(_, _, _)
SetItem(items, key, value) ==
    IF items = <<>> THEN <<<<key, value>>>>
    ELSE IF Head(items)[1] = key THEN <<<<key, value>>>> \o Tail(items)
    ELSE <<Head(items)>> \o SetItem(Tail(items), key, value)

\* scan_once and the scanners of dict and list (true, false, null are not sent)
RECURSIVE ScanValue(_), ScanObject(_, _), ScanArray(_, _)
ScanValue(b) ==
    IF b = <<>> THEN Fail
    ELSE IF Head(b) = ord("\"")
    THEN LET r == scanstring(Tail(b), <<>>)
         IN  IF r.ok THEN Ok(JStr(r.v), r.rest) ELSE Fail
    ELSE IF Head(b) = ord("{") THEN ScanObject(SkipWs(Tail(b)), <<>>)
    ELSE IF Head(b) = ord("[") THEN ScanArray(SkipWs(Tail(b)), <<>>)
    ELSE ScanNumber(b)

ScanObject(b, acc) ==
    IF b = <<>> THEN Fail
    ELSE IF Head(b) = ord("}") /\ acc = <<>> THEN Ok(JDict(<<>>), Tail(b))
    ELSE IF Head(b) # ord("\"") THEN Fail
    ELSE LET key == scanstring(Tail(b), <<>>)
             b1 == SkipWs(key.rest)
         IN  IF ~key.ok \/ b1 = <<>> THEN Fail
             ELSE IF Head(b1) # ord(":") THEN Fail
             ELSE LET value == ScanValue(SkipWs(Tail(b1)))
                      b2 == SkipWs(value.rest)
                  IN  IF ~value.ok \/ b2 = <<>> THEN Fail
                      ELSE IF Head(b2) = ord("}")
                      THEN Ok(JDict(SetItem(acc, key.v, value.v)), Tail(b2))
                      ELSE IF Head(b2) = ord(",")
                      THEN ScanObject(SkipWs(Tail(b2)), SetItem(acc, key.v, value.v))
                      ELSE Fail

ScanArray(b, acc) ==
    IF b = <<>> THEN Fail
    ELSE IF Head(b) = ord("]") /\ acc = <<>> THEN Ok(JList(<<>>), Tail(b))
    ELSE LET value == ScanValue(b)
             b2 == SkipWs(value.rest)
         IN  IF ~value.ok \/ b2 = <<>> THEN Fail
             ELSE IF Head(b2) = ord("]") THEN Ok(JList(Append(acc, value.v)), Tail(b2))
             ELSE IF Head(b2) = ord(",")
             THEN ScanArray(SkipWs(Tail(b2)), Append(acc, value.v))
             ELSE Fail

\* json.loads: one value, whitespace around it, nothing after it
loads(text) ==
    LET r == ScanValue(SkipWs(text))
    IN  IF r.ok /\ SkipWs(r.rest) = <<>> THEN Ok(r.v, <<>>) ELSE Fail

\* `key in message` for what json.loads may return: a key of a dict, an element
\* of a list, a substring of a str (on an int it raises TypeError)
In(key, message) ==
    IF message.t = "dict" THEN \E k \in 1..Len(message.v) : message.v[k][1] = key
    ELSE IF message.t = "list" THEN \E k \in 1..Len(message.v) : message.v[k] = JStr(key)
    ELSE IF message.t = "str"
    THEN \E k \in 0..(Len(message.v) - Len(key)) :
             SubSeq(message.v, k + 1, k + Len(key)) = key
    ELSE FALSE

\* ProtocolMessage.parse: what json.loads returns, which must have "type" and
\* "data" in it
parse(message_str) ==
    LET r == loads(message_str)
    IN  IF /\ r.ok
           /\ In(Text(<<"t", "y", "p", "e">>), r.v)
           /\ In(Text(<<"d", "a", "t", "a">>), r.v)
        THEN Ok(r.v, <<>>) ELSE Fail

\* data.decode('utf-8'): the text of ASCII bytes; any other byte is not ASCII
\* and none is written by send_message
decode(data) == IF \A k \in 1..Len(data) : data[k] < 128 THEN Ok(data, <<>>) ELSE Fail

\* longest free text in a payload, and the number of messages written
MaxTextLen == 2
MaxSends == 2

\* the characters of the free texts: a letter, the quote, the backslash and the
\* newline
TextChars == {ord("n"), ord("\""), ord("\\"), 10}

\* a text with a character of the Basic Multilingual Plane, one above U+FFFF and
\* a control character
Symbols == <<233, 129309, 1>>

Texts == StringsUpTo(TextChars, MaxTextLen)

\* the names of the message types and of the fields on the wire
WireName(t) ==
    CASE t = MSG_COMMIT -> Text(<<"C", "O", "M", "M", "I", "T">>)
      [] t = MSG_MOVE -> Text(<<"M", "O", "V", "E">>)
      [] t = MSG_REVEAL -> Text(<<"R", "E", "V", "E", "A", "L">>)
      [] t = MSG_RESULT -> Text(<<"R", "E", "S", "U", "L", "T">>)
      [] t = MSG_MATCH_RESULT
           -> Text(<<"M", "A", "T", "C", "H", "_", "R", "E", "S", "U", "L", "T">>)
      [] t = MSG_ERROR -> Text(<<"E", "R", "R", "O", "R">>)

K_commitment == Text(<<"c", "o", "m", "m", "i", "t", "m", "e", "n", "t">>)
K_num_dice == Text(<<"n", "u", "m", "_", "d", "i", "c", "e">>)
K_move == Text(<<"m", "o", "v", "e">>)
K_nonce == Text(<<"n", "o", "n", "c", "e">>)
K_winner == Text(<<"w", "i", "n", "n", "e", "r">>)
K_alice_move == Text(<<"a", "l", "i", "c", "e", "_", "m", "o", "v", "e">>)
K_bob_move == Text(<<"b", "o", "b", "_", "m", "o", "v", "e">>)
K_message == Text(<<"m", "e", "s", "s", "a", "g", "e">>)
K_alice_sum == Text(<<"a", "l", "i", "c", "e", "_", "s", "u", "m">>)
K_alice_dice == Text(<<"a", "l", "i", "c", "e", "_", "d", "i", "c", "e">>)
K_bob_sum == Text(<<"b", "o", "b", "_", "s", "u", "m">>)
K_bob_dice == Text(<<"b", "o", "b", "_", "d", "i", "c", "e">>)

Ints(s) == [k \in 1..Len(s) |-> JInt(s[k])]

\* the send_message calls of the two programs, as <<msg_type, kwargs>>: every
\* type of both catalogs with payloads of the kinds the code passes; the texts
\* that come from the peer or from an exception are free
CodecMessages ==
    {<<MSG_ERROR, <<<<K_message, JStr(s)>>>>>> : s \in Texts}
    \cup {<<MSG_COMMIT, <<<<K_commitment, JStr(Text(<<"e", "3", "b", "0">>))>>>>>>}
    \cup {<<MSG_COMMIT, <<<<K_commitment, JStr(Text(<<"e", "3", "b", "0">>))>>,
                          <<K_num_dice, JInt(n)>>>>>> : n \in {1, 10}}
    \cup {<<MSG_MOVE, <<<<K_move, JStr(Text(m))>>>>>> : m \in VALID_MOVES}
    \cup {<<MSG_REVEAL, <<<<K_move, JStr(Text(PAPER))>>,
                          <<K_nonce, JStr(Text(RogueNonce))>>>>>>}
    \cup {<<MSG_REVEAL, <<<<K_alice_sum, JInt(SeqSum(d))>>, <<K_alice_dice, JList(Ints(d))>>,
                          <<K_nonce, JStr(Text(RogueNonce))>>>>>> : d \in {<<>>, <<3, 4>>}}
    \cup {<<MSG_RESULT, <<<<K_bob_sum, JInt(12)>>, <<K_bob_dice, JList(Ints(<<6, 6>>))>>>>>>}
    \cup {<<MSG_RESULT, <<<<K_winner, JInt(w)>>, <<K_alice_move, JStr(Text(ROCK))>>,
                          <<K_bob_move, JStr(Text(PAPER))>>, <<K_message, JStr(s)>>>>>> :
              w \in {2}, s \in {Symbols}}
    \cup {<<MSG_MATCH_RESULT,
            <<<<K_winner, JInt(0)>>, <<K_alice_sum, JInt(3)>>,
              <<K_alice_dice, JList(Ints(<<3>>))>>, <<K_bob_sum, JInt(3)>>,
              <<K_bob_dice, JList(Ints(<<3>>))>>, <<K_message, JStr(Text(<<"T", "I", "E">>))>>>>>>}

CodecInit ==
    /\ Idle
    /\ lab = [pc |-> "codec", wire |-> <<>>, data |-> <<>>, pending |-> <<>>,
              sends |-> 0, received |-> 0, got |-> Fail, want |-> JInt(0)]

\* send_message(sock, msg_type, **kwargs)
CodecSend ==
    /\ lab.pc = "codec"
    /\ lab.sends < MaxSends
    /\ \E m \in CodecMessages :
        lab' = [lab EXCEPT !.wire = @ \o Frame(WireName(m[1]), m[2]),
                           !.pending = Append(@, Message(WireName(m[1]), m[2])),
                           !.sends = @ + 1]
    /\ UNCHANGED <<game, mode, conns, alice, bob, budget>>

\* receive_message, one turn of its loop: chunk = sock.recv(1); data += chunk
CodecRecvByte ==
    /\ lab.pc = "codec"
    /\ lab.wire # <<>>
    /\ Head(lab.wire) # 10
    /\ lab' = [lab EXCEPT !.wire = Tail(@), !.data = Append(@, Head(lab.wire))]
    /\ UNCHANGED <<game, mode, conns, alice, bob, budget>>

\* receive_message, the turn that reads the newline: decode, parse, return
CodecRecvLine ==
    /\ lab.pc = "codec"
    /\ lab.wire # <<>>
    /\ Head(lab.wire) = 10
    /\ LET text == decode(lab.data)
       IN  lab' = [lab EXCEPT !.wire = Tail(@), !.data = <<>>,
                              !.received = @ + 1,
                              !.got = IF text.ok THEN parse(text.v) ELSE Fail,
                              !.want = IF lab.pending = <<>> THEN JInt(0)
                                       ELSE Head(lab.pending),
                              !.pending = IF @ = <<>> THEN @ ELSE Tail(@)]
    /\ UNCHANGED <<game, mode, conns, alice, bob, budget>>

CodecNext == CodecSend \/ CodecRecvByte \/ CodecRecvLine

SpecCodec == CodecInit /\ [][CodecNext]_vars

\* the number of newline bytes in a byte string
Newlines(b) == Cardinality({k \in 1..Len(b) : b[k] = 10})

\* C5: what receive_message returns is the message send_message was called with:
\* the same type and the same data, for every type of the catalog; the bytes of
\* a message hold one newline, the last one, so that the k-th message read is
\* the k-th message written and as many are read as were written.
C5_RoundTrip ==
    lab.pc = "codec" =>
        /\ lab.received > 0 => lab.got = Ok(lab.want, <<>>)
        /\ lab.sends = lab.received + Len(lab.pending)
        /\ Newlines(lab.wire) = Len(lab.pending)
        /\ lab.wire # <<>> => lab.wire[Len(lab.wire)] = 10
        /\ Newlines(lab.data) = 0

\* a text with a newline and a quote came back as the second of two messages
C5_Witness ==
    /\ lab.pc = "codec"
    /\ lab.received = 2
    /\ lab.wire = <<>>
    /\ lab.got = Ok(Message(WireName(MSG_ERROR),
                            <<<<K_message, JStr(<<10, ord("\"")>>)>>>>), <<>>)

(* ------------------------------------------------------------------ *)
(* determine_winner                                                     *)
(* ------------------------------------------------------------------ *)

\* largest dice sum handed to DiceLogic.determine_winner
MaxSum == 12

WinnerInit ==
    /\ Idle
    /\ \/ \E m1 \in VALID_MOVES, m2 \in VALID_MOVES :
              lab = [pc |-> "winner", g |-> "rps", v1 |-> m1, v2 |-> m2]
       \/ \E s1 \in 1..MaxSum, s2 \in 1..MaxSum :
              lab = [pc |-> "winner", g |-> "dice", v1 |-> s1, v2 |-> s2]

\* winner = GameLogic.determine_winner(move1, move2), and the call with the
\* arguments exchanged
RpsWinnerCall ==
    /\ lab.pc = "winner"
    /\ lab.g = "rps"
    /\ lab' = [pc |-> "won", g |-> lab.g, v1 |-> lab.v1, v2 |-> lab.v2,
               winner |-> determine_winner(lab.v1, lab.v2),
               back |-> determine_winner(lab.v2, lab.v1)]
    /\ UNCHANGED <<game, mode, conns, alice, bob, budget>>

\* winner = DiceLogic.determine_winner(sum1, sum2), and the call with the
\* arguments exchanged
DiceWinnerCall ==
    /\ lab.pc = "winner"
    /\ lab.g = "dice"
    /\ lab' = [pc |-> "won", g |-> lab.g, v1 |-> lab.v1, v2 |-> lab.v2,
               winner |-> dice_determine_winner(lab.v1, lab.v2),
               back |-> dice_determine_winner(lab.v2, lab.v1)]
    /\ UNCHANGED <<game, mode, conns, alice, bob, budget>>

WinnerNext == RpsWinnerCall \/ DiceWinnerCall

SpecWinner == WinnerInit /\ [][WinnerNext]_vars

\* C11: determine_winner returns one of 0 (tie), 1 (committer), 2 (responder) for
\* every pair of the domain. For moves: 0 iff the moves are equal, 1 iff the pair
\* is (rock, scissors), (scissors, paper) or (paper, rock), 2 otherwise, and 1 one
\* way round iff 2 the other way round. For sums: 1 iff sum1 > sum2, 2 iff
\* sum2 > sum1, 0 iff they are equal.
C11_DetermineWinner ==
    lab.pc = "won" =>
        /\ lab.winner \in {0, 1, 2}
        /\ lab.winner = 1 <=> lab.back = 2
        /\ lab.winner = 2 <=> lab.back = 1
        /\ lab.g = "rps" =>
               /\ lab.winner = 0 <=> lab.v1 = lab.v2
               /\ lab.winner = 1 <=> <<lab.v1, lab.v2>> \in
                      {<<ROCK, SCISSORS>>, <<SCISSORS, PAPER>>, <<PAPER, ROCK>>}
        /\ lab.g = "dice" =>
               /\ lab.winner = 1 <=> lab.v1 > lab.v2
               /\ lab.winner = 2 <=> lab.v2 > lab.v1
               /\ lab.winner = 0 <=> lab.v1 = lab.v2

\* rock against scissors: the committer wins
C11_Witness ==
    /\ lab.pc = "won"
    /\ lab.g = "rps"
    /\ lab.v1 = ROCK /\ lab.v2 = SCISSORS
    /\ lab.winner = 1 /\ lab.back = 2

\* 8 against 6: the committer wins
C11_DiceReached ==
    lab.pc = "won" /\ lab.g = "dice" /\ lab.v1 = 8 /\ lab.v2 = 6 /\ lab.winner = 1

(* ------------------------------------------------------------------ *)
(* The verdict of a match                                              *)
(* ------------------------------------------------------------------ *)

\* number of rounds of a scripted match
MaxRounds == 5

\* a verdict in which the ties count for Alice
BobVerdict_ties_count(alice_wins, bob_wins, ties) ==
    IF alice_wins + ties > bob_wins THEN "alice"
    ELSE IF bob_wins > alice_wins + ties THEN "bob" ELSE "tie"

\* the verdict run_match prints after the loop
BobVerdict(alice_wins, bob_wins, ties) ==
    IF alice_wins > bob_wins THEN "alice"
    ELSE IF bob_wins > alice_wins THEN "bob" ELSE "tie"

\* the verdict play_match prints after the loop
AliceVerdict(alice_wins, bob_wins, ties) ==
    IF alice_wins > bob_wins THEN "alice"
    ELSE IF bob_wins > alice_wins THEN "bob" ELSE "tie"

\* DiceLogic.get_match_result_message: the total, the three counters and the
\* verdict
get_match_result_message(alice_wins, bob_wins, ties) ==
    [total |-> alice_wins + bob_wins + ties,
     alice_wins |-> alice_wins, bob_wins |-> bob_wins, ties |-> ties,
     verdict |-> IF alice_wins > bob_wins THEN "alice"
                 ELSE IF bob_wins > alice_wins THEN "bob" ELSE "tie"]

MatchInit ==
    /\ Idle
    /\ lab = [pc |-> "match", winners |-> <<>>, alice_wins |-> 0, bob_wins |-> 0, ties |-> 0]

\* one turn of the loop of run_match / play_match with a round that returned
\* (alice_sum, bob_sum, winner)
MatchRound ==
    /\ lab.pc = "match"
    /\ Len(lab.winners) < MaxRounds
    /\ \E winner \in {0, 1, 2} :
        lab' = [BobTally("dice", lab, ReturnTuple(0, 0, winner))
                    EXCEPT !.winners = Append(@, winner)]
    /\ UNCHANGED <<game, mode, conns, alice, bob, budget>>

\* the report after the loop, on both sides
MatchReport ==
    /\ lab.pc = "match"
    /\ lab' = [pc |-> "verdict", winners |-> lab.winners,
               alice_wins |-> lab.alice_wins, bob_wins |-> lab.bob_wins, ties |-> lab.ties,
               bob_says |-> BobVerdict(lab.alice_wins, lab.bob_wins, lab.ties),
               alice_says |-> AliceVerdict(lab.alice_wins, lab.bob_wins, lab.ties),
               message |-> get_match_result_message(lab.alice_wins, lab.bob_wins, lab.ties)]
    /\ UNCHANGED <<game, mode, conns, alice, bob, budget>>

MatchNext == MatchRound \/ MatchReport

SpecMatch == MatchInit /\ [][MatchNext]_vars

\* how many rounds of a script a winner took
Wins(winners, w) == Cardinality({k \in 1..Len(winners) : winners[k] = w})

\* C14: the verdict of a match depends on the two win counters only: Alice iff
\* alice_wins > bob_wins, Bob iff bob_wins > alice_wins, tie iff they are equal,
\* whatever the number of ties; run_match, play_match and
\* get_match_result_message give the same verdict for the same tally. The
\* winners 1, 0, 2, 1, 1 give the tally 3 / 1 / 1 and the verdict Alice.
C14_Verdict ==
    lab.pc = "verdict" =>
        /\ lab.alice_wins = Wins(lab.winners, 1)
        /\ lab.bob_wins = Wins(lab.winners, 2)
        /\ lab.ties = Wins(lab.winners, 0)
        /\ lab.bob_says = lab.alice_says
        /\ lab.bob_says = lab.message.verdict
        /\ lab.bob_says \in {"alice", "bob", "tie"}
        /\ lab.bob_says = "alice" <=> lab.alice_wins > lab.bob_wins
        /\ lab.bob_says = "bob" <=> lab.bob_wins > lab.alice_wins
        /\ lab.bob_says = "tie" <=> lab.alice_wins = lab.bob_wins
        /\ lab.winners = <<1, 0, 2, 1, 1>> =>
               /\ <<lab.alice_wins, lab.bob_wins, lab.ties>> = <<3, 1, 1>>
               /\ lab.bob_says = "alice"

C14_Witness ==
    /\ lab.pc = "verdict"
    /\ lab.winners = <<1, 0, 2, 1, 1>>
    /\ lab.bob_says = "alice"

\* a match of ties only is tied
C14_AllTies ==
    /\ lab.pc = "verdict"
    /\ lab.winners = <<0, 0, 0>>
    /\ lab.bob_says = "tie"

(* ------------------------------------------------------------------ *)
(* receive_message on bytes that send_message did not write             *)
(* ------------------------------------------------------------------ *)

K_type == Text(<<"t", "y", "p", "e">>)
K_data == Text(<<"d", "a", "t", "a">>)

\* a message as send_message frames it
MoveLine == Frame(WireName(MSG_MOVE), <<<<K_move, JStr(Text(ROCK))>>>>)

\* What a peer may have written before it closed the connection, with the kind
\* of input it is: a whole message; a message cut before its newline; a line that
\* is not JSON (or not UTF-8); a JSON line without "type", without "data", or
\* that is no JSON object at all.
RawInputs ==
    {[bytes |-> MoveLine, kind |-> "message"]}
    \cup {[bytes |-> SubSeq(MoveLine, 1, n), kind |-> "truncated"] :
              n \in {0, 1, Len(MoveLine) - 1}}
    \cup {[bytes |-> b \o <<10>>, kind |-> "malformed"] :
              b \in {<<>>, Text(<<"{">>), Text(ROCK), <<255>>,
                     SubSeq(MoveLine, 1, Len(MoveLine) - 2),
                     Text(<<"{", "}", " ", "{", "}">>)}}
    \cup {[bytes |-> dumps(JDict(<<<<K_data, JDict(<<>>)>>>>)) \o <<10>>, kind |-> "no_type"],
          [bytes |-> dumps(JDict(<<<<K_type, JStr(WireName(MSG_MOVE))>>>>)) \o <<10>>,
           kind |-> "no_data"],
          [bytes |-> dumps(JDict(<<>>)) \o <<10>>, kind |-> "no_type"]}
    \cup {[bytes |-> b \o <<10>>, kind |-> "no_fields"] :
              b \in {dumps(JInt(5)), dumps(JList(<<>>)), dumps(JStr(K_move)),
                     dumps(JList(<<JStr(K_type), JStr(K_data)>>)),
                     dumps(JStr(K_type \o K_data))}}

ReceiveInit ==
    /\ Idle
    /\ \E input \in RawInputs :
        lab = [pc |-> "receive", wire |-> input.bytes, kind |-> input.kind,
               data |-> <<>>, got |-> Fail]

\* one turn of the loop: chunk = sock.recv(1); data += chunk
ReceiveByte ==
    /\ lab.pc = "receive"
    /\ lab.wire # <<>>
    /\ Head(lab.wire) # 10
    /\ lab' = [lab EXCEPT !.wire = Tail(@), !.data = Append(@, Head(lab.wire))]
    /\ UNCHANGED <<game, mode, conns, alice, bob, budget>>

\* the turn that reads the newline: decode, parse, return (or raise)
ReceiveLine ==
    /\ lab.pc = "receive"
    /\ lab.wire # <<>>
    /\ Head(lab.wire) = 10
    /\ LET text == decode(lab.data)
       IN  lab' = [lab EXCEPT !.pc = IF text.ok /\ parse(text.v).ok THEN "returned"
                                     ELSE "raised",
                              !.wire = Tail(@), !.data = <<>>,
                              !.got = IF text.ok THEN parse(text.v) ELSE Fail]
    /\ UNCHANGED <<game, mode, conns, alice, bob, budget>>

\* the turn in which recv returns b'': raise ConnectionError("Connection closed");
\* data goes with the frame of the call
ReceiveClosed ==
    /\ lab.pc = "receive"
    /\ lab.wire = <<>>
    /\ lab' = [lab EXCEPT !.pc = "raised", !.data = <<>>, !.got = Fail]
    /\ UNCHANGED <<game, mode, conns, alice, bob, budget>>

ReceiveNext == ReceiveByte \/ ReceiveLine \/ ReceiveClosed

SpecReceive == ReceiveInit /\ [][ReceiveNext]_vars

\* C17: receive_message raises, and returns no message, when the connection
\* closes before a newline was read (what was read is dropped), when the line is
\* not well-formed JSON, and when what was decoded has no "type" or no "data"
\* field.
C17_ReceiveErrors ==
    (lab.pc \in {"returned", "raised"} /\ lab.kind # "message") =>
        /\ lab.pc = "raised"
        /\ ~lab.got.ok
        /\ lab.data = <<>>

\* the same for lines that hold a JSON object, or no JSON at all, and for
\* connections that close
C17_ObjectsAndFraming ==
    (lab.pc \in {"returned", "raised"} /\ lab.kind \notin {"message", "no_fields"}) =>
        /\ lab.pc = "raised"
        /\ ~lab.got.ok
        /\ lab.data = <<>>

C17_TruncatedReached ==
    lab.pc = "raised" /\ lab.kind = "truncated" /\ lab.wire = <<>>

C17_MessageReturned ==
    lab.pc = "returned" /\ lab.kind = "message" /\ lab.got.ok


\* the value is a JSON object with the key among its keys
HasKey(message, key) ==
    message.t = "dict" /\ \E k \in 1..Len(message.v) : message.v[k][1] = key

\* C36: every value receive_message returns is a JSON object with a "type" key
\* and a "data" key; a line of well-formed JSON that is no object (a number, a
\* list, a string, also one that contains "type" and "data") is rejected and not
\* returned.
C36_EnvelopeShape ==
    /\ lab.pc = "returned" => (HasKey(lab.got.v, K_type) /\ HasKey(lab.got.v, K_data))
    /\ (lab.pc \in {"returned", "raised"} /\ lab.kind = "no_fields") => lab.pc = "raised"

\* the same for the values that are objects: one that is returned has both keys
C36_ObjectsHaveBothKeys ==
    (lab.pc = "returned" /\ lab.got.v.t = "dict") =>
        (HasKey(lab.got.v, K_type) /\ HasKey(lab.got.v, K_data))

\* a number, a list and a string in which "type" or "data" does not occur are
\* rejected
C36_OthersRejected ==
    (/\ lab.pc \in {"returned", "raised"}
     /\ lab.kind = "no_fields"
     /\ lab.got.ok => ~(In(K_type, lab.got.v) /\ In(K_data, lab.got.v))) =>
        lab.pc = "raised"

\* receive_message returned a JSON string
C36_StringReturned ==
    /\ lab.pc = "returned"
    /\ lab.got.ok
    /\ lab.got.v = JStr(K_type \o K_data)

\* receive_message returned a JSON list
C36_ListReturned ==
    /\ lab.pc = "returned"
    /\ lab.got.ok
    /\ lab.got.v.t = "list"


(* ------------------------------------------------------------------ *)
(* handle_game, phases 1 and 2, on two commitments                    *)
(* ------------------------------------------------------------------ *)

\* a connection Bob has accepted, with Alice's COMMIT of choice v waiting on it
IndepConn(g, v, nonce, num_dice) ==
    [UnusedConn EXCEPT !.cli = "open", !.srv = "open",
                       !.a2b = <<AliceCommitMsg(g, commit(AliceValue(g, v), nonce), num_dice)>>]

\* two games that differ in Alice's choice only, and the value Bob's random
\* source yields in both
IndepInit ==
    /\ Idle
    /\ \E g \in {"rps", "dice"}, num_dice \in 1..MaxNumDice, nonce \in Nonces :
       \E va \in AliceChoices(g, num_dice), vb \in AliceChoices(g, num_dice),
          choice \in BobChoices(g, AliceCommitMsg(g, Sha256(<<>>), num_dice)) :
            lab = [pc |-> "first", g |-> g, num_dice |-> num_dice, nonce |-> nonce,
                   va |-> va, vb |-> vb, choice |-> choice]

\* handle_game up to the receive of phase 3, on the commitment to va
IndepHandleA ==
    /\ lab.pc = "first"
    /\ lab' = [pc |-> "second", g |-> lab.g, num_dice |-> lab.num_dice,
               nonce |-> lab.nonce, va |-> lab.va, vb |-> lab.vb, choice |-> lab.choice,
               outA |-> HandleCommit(lab.g, IndepConn(lab.g, lab.va, lab.nonce, lab.num_dice),
                                     lab.choice, TRUE, TRUE)]
    /\ UNCHANGED <<game, mode, conns, alice, bob, budget>>

\* the same, on the commitment to vb
IndepHandleB ==
    /\ lab.pc = "second"
    /\ lab' = [pc |-> "handled", g |-> lab.g, num_dice |-> lab.num_dice,
               nonce |-> lab.nonce, va |-> lab.va, vb |-> lab.vb, choice |-> lab.choice,
               outA |-> lab.outA,
               outB |-> HandleCommit(lab.g, IndepConn(lab.g, lab.vb, lab.nonce, lab.num_dice),
                                     lab.choice, TRUE, TRUE)]
    /\ UNCHANGED <<game, mode, conns, alice, bob, budget>>

IndepNext == IndepHandleA \/ IndepHandleB

SpecIndep == IndepInit /\ [][IndepNext]_vars

\* C24: two runs of handle_game that differ in Alice's value (and so in the
\* commitment) and draw the same random value write the same RESPONSE: one
\* message of the response type, carrying the value drawn.
C24_ResponseIndependent ==
    lab.pc = "handled" =>
        /\ lab.outA.conn.b2a = lab.outB.conn.b2a
        /\ lab.outA.conn.b2a = <<BobResponse(lab.g, lab.choice)>>
        /\ lab.outA.next = "wait_reveal" /\ lab.outB.next = "wait_reveal"

\* the two commitments differ, and one is to the value the other run's Bob beats
C24_Witness ==
    /\ lab.pc = "handled"
    /\ lab.g = "rps"
    /\ lab.va = ROCK /\ lab.vb = SCISSORS /\ lab.choice = ROCK
    /\ lab.outA.locals.alice_commitment # lab.outB.locals.alice_commitment
    /\ lab.outB.conn.b2a = <<Msg(MSG_MOVE, [move |-> ROCK])>>

C24_DiceReached ==
    /\ lab.pc = "handled"
    /\ lab.g = "dice"
    /\ lab.va = <<1>> /\ lab.vb = <<6>>
    /\ lab.outA.conn.b2a = <<Msg(MSG_RESULT, [bob_sum |-> 3, bob_dice |-> <<3>>])>>

====
